---- MODULE Spec2Model ----
(***************************************************************************)
(* Workflow orchestration core of the multi-agent backend.                 *)
(*                                                                         *)
(*   SpecGraph : WorkflowDAG.add_node / add_edge / _creates_cycle          *)
(*               (backend/agents/services/workflow_dag.py)                 *)
(*   SpecOrch  : WorkflowOrchestrator.execute_workflow and the scheduler   *)
(*               loop _execute_workflow_steps / _execute_step              *)
(*               (backend/agents/services/workflow_orchestrator.py)        *)
(*   SpecDag   : WorkflowEngine.execute_workflow / _execute_node, the wave *)
(*               loop over a WorkflowDAG                                   *)
(*               (backend/agents/services/workflow_dag.py)                 *)
(*   SpecEngine : WorkflowEngine.execute_workflow / cancel_workflow, the   *)
(*               sequential engine                                         *)
(*               (backend/agents/services/workflow_engine.py)              *)
(*   SpecSelector : SmartAgentSelector.select_best_agent                   *)
(*               (backend/agents/services/agent_selector.py)               *)
(*   SpecTracker, SpecTrackerSeq : PerformanceTracker._update_agent_metrics*)
(*               called concurrently / one call after the other            *)
(*               (backend/agents/services/performance_tracker.py)          *)
(*   SpecOrchCallback : SpecOrch with a progress callback                  *)
(*   SpecOrchRetries  : SpecOrch with a template that allows more retries  *)
(*   HangingBodySpecOrch : SpecOrch with a fair scheduler and step bodies  *)
(*               that need not return                                      *)
(*   SpecDagRerun : SpecDag with further execute_workflow calls on the     *)
(*               same dag                                                  *)
(*   SpecExplain : SmartAgentSelector._calculate_agent_score and           *)
(*               explain_selection for one agent                           *)
(*   SpecRegistry : WorkflowOrchestrator.execute_workflow called by        *)
(*               several callers, active_workflows, get_workflow_status    *)
(*   SpecHistory : WorkflowEngine._store_execution_history                 *)
(*               (backend/agents/services/workflow_dag.py)                 *)
(***************************************************************************)
EXTENDS Integers, Sequences, FiniteSets, TLC

(***************************************************************************)
(* Bounds of the model.                                                    *)
(***************************************************************************)
\* node ids offered to add_node / add_edge
MaxNodes == 3
\* total number of edges add_edge may have accepted
MaxEdges == 3
\* total number of dependencies entries the WorkflowNodes carry when they
\* are handed to add_node
MaxPreDeps == 1
\* steps of a workflow template
MaxSteps == 3
\* total number of dependency entries over the steps of a template
MaxArcs == 2
\* largest error_handling.max_retries a template sets
MaxRetries == 1
\* recordings made for one agent and task type
MaxRecordings == 3
\* largest execution time of a recording, in seconds
MaxDuration == 2
\* Agent rows in the database
MaxAgents == 2
\* capability tags of an agent
MaxTags == 2
\* select_best_agent returns None
\* calls of execute_workflow with the same dag
MaxRuns == 2

\* retries a template allows in the executions that observe the backoff
MaxBackoffs == 3

\* how often a caller asks for the explanation of the same arguments
MaxExplanations == 2

\* concurrent execute_workflow calls on one orchestrator
MaxCalls == 2
\* last tick of the clock
MaxClock == 3
\* ticks of the clock in one second
TicksPerSecond == 2

\* results stored for one workflow id
MaxExecutions == 102

\* Keep only last 100 executions
HistoryLimit == 100

NoAgent == 0

NodeIds == 1..MaxNodes

Range(s) == {s[i] : i \in 1..Len(s)}

(***************************************************************************)
(* WorkflowDAG state.  nodes is the key set of self.nodes, dependencies[n] *)
(* is self.nodes[n].dependencies, edges[n] is self.edges[n].  call is the  *)
(* last call made on the graph together with its outcome.                  *)
(***************************************************************************)
VARIABLES nodes, edges, dependencies, call

gvars == <<nodes, edges, dependencies, call>>

(***************************************************************************)
(* WorkflowOrchestrator state, one WorkflowExecution.                      *)
(*   stepDeps[s]      steps[s].dependencies, from the template             *)
(*   error_handling   execution.metadata['error_handling']                 *)
(*   stepStatus[s]    steps[s].status                                      *)
(*   retry_count[s]   steps[s].retry_count                                 *)
(*   completed_steps, failed_steps, ready_steps                            *)
(*                    the locals of _execute_workflow_steps                *)
(*   taskIdx          position of "for step_id, task in step_tasks"        *)
(*   pc               position of execute_workflow/_execute_workflow_steps *)
(*   stepPc[s]        position of the coroutine _execute_step(steps[s])    *)
(*   execStatus, execError   execution.status, execution.error             *)
(*   result           what _compile_workflow_results returned              *)
(*   invocations[s]   number of times the body of s was invoked            *)
(*   callback         whether execute_workflow was given a callback        *)
(*   progress         how the last call of the callback ended: "sent",     *)
(*                    "raised", "none" before the first call               *)
(*   slept[s]         the delays asyncio.sleep was called with by the      *)
(*                    coroutine of s, in seconds                           *)
(*   step_error[s]    steps[s].error                                       *)
(***************************************************************************)
VARIABLES stepDeps, error_handling, stepStatus, retry_count,
          completed_steps, failed_steps, ready_steps, taskIdx, pc, stepPc,
          execStatus, execError, result, invocations, callback, progress,
          slept, step_error

ovars == <<stepDeps, error_handling, stepStatus, retry_count,
           completed_steps, failed_steps, ready_steps, taskIdx, pc, stepPc,
           execStatus, execError, result, invocations, callback, progress,
           slept, step_error>>

(***************************************************************************)
(* workflow_dag.WorkflowEngine state, one execute_workflow(dag) call.      *)
(*   node_status[n]       dag.nodes[n].status                              *)
(*   node_retry_count[n]  dag.nodes[n].retry_count                         *)
(*   node_max_retries     the max_retries the nodes of the dag carry       *)
(*   completed_nodes, failed_nodes, executable_nodes                       *)
(*                        the locals of execute_workflow                   *)
(*   gathered[n]          what the task of n handed to asyncio.gather:     *)
(*                        "true", "false", "exception", "none" while the   *)
(*                        task has not finished                            *)
(*   nodePc[n]            position of the task _execute_node(dag, n)       *)
(*   dpc                  position of execute_workflow                     *)
(*   dagResult            result['status'] of execute_workflow             *)
(*   node_invocations[n]  number of times the body of n was invoked        *)
(*   dag_context[k]       dag.context: the value stored under key k        *)
(***************************************************************************)
VARIABLES node_status, node_retry_count, node_max_retries, completed_nodes,
          failed_nodes, executable_nodes, gathered, nodePc, dpc, dagResult,
          node_invocations, dag_context

dvars == <<node_status, node_retry_count, node_max_retries, completed_nodes,
           failed_nodes, executable_nodes, gathered, nodePc, dpc, dagResult,
           node_invocations, dag_context>>

(***************************************************************************)
(* PerformanceTracker state for one agent and one task_type.               *)
(*   task_metrics   agent.configuration['performance_metrics'][task_type]  *)
(*                  as stored in the database; the averages are rationals  *)
(*                  <<numerator, denominator>>                             *)
(*   recPc[p]       position of recording p in _update_agent_metrics       *)
(*   recLocal[p]    the task_metrics dict recording p holds in memory      *)
(*   recorded       history of the recordings that have finished: number,  *)
(*                  successes, sum of execution times, number and sum of   *)
(*                  the accuracy values supplied                           *)
(***************************************************************************)
VARIABLES task_metrics, recPc, recLocal, recorded

pvars == <<task_metrics, recPc, recLocal, recorded>>

(***************************************************************************)
(* State of the sequential engine (WorkflowEngine of workflow_engine.py).  *)
(*   wfDeps, wfCritical : dependencies and config['critical'] of each step *)
(*   wfStepStatus       : step.status                                      *)
(*   wfResults          : the step ids that are keys of context['results'] *)
(*   execution_order    : the list _topological_sort returned              *)
(*   orderIdx           : position of the loop in execution_order          *)
(*   wfPc               : position of execute_workflow                     *)
(*   ctxStatus          : context['status']                                *)
(*   running_workflows  : whether the workflow id is in running_workflows  *)
(*   wfReturn           : result of _execute_workflow_steps                *)
(*   noAgentSteps       : history, the steps for which select_best_agent   *)
(*                        returned None                                    *)
(*   bodyInvoked        : history, the steps whose task was created and    *)
(*                        executed                                         *)
(*   cancelReturn       : what the last cancel_workflow call returned      *)
(*   cancelAccepted     : history, a cancel_workflow call returned True    *)
(*   pendingAtCancel    : history, the steps that were pending at that call *)
(***************************************************************************)
VARIABLES wfDeps, wfCritical, wfStepStatus, wfResults, execution_order,
          orderIdx, wfPc, ctxStatus, running_workflows, wfReturn,
          noAgentSteps, bodyInvoked, cancelReturn, cancelAccepted,
          pendingAtCancel

wvars == <<wfDeps, wfCritical, wfStepStatus, wfResults, execution_order,
           orderIdx, wfPc, ctxStatus, running_workflows, wfReturn,
           noAgentSteps, bodyInvoked, cancelReturn, cancelAccepted,
           pendingAtCancel>>

(***************************************************************************)
(* State of a select_best_agent call of SmartAgentSelector.                *)
(*   registry[i]     : the Agent rows, in the order the queryset gives     *)
(*   task_type       : the task_type argument                              *)
(*   exclude_agents  : the exclude_agents argument                         *)
(*   best_agent      : the agent returned, NoAgent for None                *)
(*   selPc           : position of the call                                *)
(***************************************************************************)
VARIABLES registry, task_type, exclude_agents, best_agent, selPc

svars == <<registry, task_type, exclude_agents, best_agent, selPc>>

(***************************************************************************)
(* Scoring one agent: select_best_agent scores it and explain_selection is *)
(* called for it (agent_selector.py, views.py select_best_agent).          *)
(*   candidate        : the Agent object passed to both calls, with what   *)
(*                      get_agent_performance returns for it right now     *)
(*   keyword_matches  : how many of its capabilities have a word that      *)
(*                      occurs in task_description                         *)
(*   requirements     : the requirements argument                          *)
(*   selection_score  : the total select_best_agent computed, << >> before *)
(*   total_score      : the total of the explain_selection call in         *)
(*                      progress, << >> outside the call                   *)
(*   explanations     : the explanations returned so far                   *)
(*   expPc            : position of the caller                             *)
(***************************************************************************)
VARIABLES candidate, keyword_matches, requirements, selection_score,
          total_score, explanations, expPc

evars == <<candidate, keyword_matches, requirements, selection_score,
           total_score, explanations, expPc>>

(***************************************************************************)
(* The calls of workflow_dag.WorkflowEngine.execute_workflow that were     *)
(* made with the same dag before the current one.                          *)
(*   previous_runs    one entry per call that has returned: the status it  *)
(*                    returned and how often it invoked each node's body   *)
(***************************************************************************)
VARIABLES previous_runs

rvars == <<previous_runs>>

(***************************************************************************)
(* The execute_workflow calls made on one WorkflowOrchestrator and its     *)
(* registry of running executions (workflow_orchestrator.py).              *)
(*   now              the clock, in ticks of 1/TicksPerSecond second       *)
(*   active_workflows self.active_workflows: execution id -> the call      *)
(*                    whose WorkflowExecution is stored under it           *)
(*   callPc[c]        where call c is: idle, running (awaiting             *)
(*                    _execute_workflow_steps), returned, raised           *)
(*   execution_id[c]  the local execution_id of call c, Unbound before its *)
(*                    assignment                                           *)
(*   callRaised[c]    the exception that left call c                       *)
(*   callOutcome[c]   how _execute_workflow_steps ended in call c          *)
(***************************************************************************)
VARIABLES now, active_workflows, callPc, execution_id, callRaised,
          callOutcome

avars == <<now, active_workflows, callPc, execution_id, callRaised,
           callOutcome>>

(***************************************************************************)
(* The execution history of workflow_dag.WorkflowEngine.                   *)
(*   execution_history  self.execution_history: workflow id -> the results *)
(*                      kept for it; a result is written as the number of  *)
(*                      the execution of that workflow id it belongs to    *)
(*   stored[w]          how many results were stored for workflow id w     *)
(***************************************************************************)
VARIABLES execution_history, stored

hvars == <<execution_history, stored>>

\* the services around the schedulers
services == <<pvars, wvars, svars, evars, avars, hvars>>

\* the components added after the three schedulers
xvars == <<services, rvars>>

\* what the performance tracker leaves alone
othersP == <<gvars, ovars, dvars, wvars, svars, evars, rvars, avars,
            hvars>>

\* what the sequential engine leaves alone
othersW == <<gvars, ovars, dvars, pvars, svars, evars, rvars, avars,
            hvars>>

\* what the agent selector leaves alone
othersS == <<gvars, ovars, dvars, pvars, wvars, evars, rvars, avars,
            hvars>>

\* what the scoring of one agent leaves alone
othersE == <<gvars, ovars, dvars, pvars, wvars, svars, rvars, avars,
            hvars>>

\* what the registry of the orchestrator leaves alone
othersA == <<gvars, ovars, dvars, pvars, wvars, svars, evars, rvars,
            hvars>>

\* what the execution history leaves alone
othersH == <<gvars, ovars, dvars, pvars, wvars, svars, evars, rvars,
            avars>>

vars == <<gvars, ovars, dvars, xvars>>

\* the dependencies lists a caller may put on a WorkflowNode before add_node
PreDeps == UNION {[1..n -> NodeIds] : n \in 0..MaxPreDeps}

NoCall == [op |-> "none", a |-> 0, b |-> 0, raised |-> "none"]

EmptyGraph ==
    /\ nodes = {}
    /\ edges = << >>
    /\ dependencies = << >>
    /\ call = NoCall

\* self.edges.get(node_id, [])
EdgesGet(e, n) == IF n \in DOMAIN e THEN e[n] ELSE << >>

(***************************************************************************)
(* _creates_cycle: depth-first search from to_node along self.edges with a *)
(* visited set shared by the whole search.  Dfs returns the pair           *)
(* <<found, visited>>; DfsLoop is the for loop over edges.get(node_id).    *)
(***************************************************************************)
RECURSIVE Dfs(_, _, _, _), DfsLoop(_, _, _, _, _)

DfsLoop(e, from_node, succs, i, visited) ==
    IF i > Len(succs) THEN <<FALSE, visited>>
    ELSE LET r == Dfs(e, from_node, succs[i], visited)
         IN IF r[1] THEN r
            ELSE DfsLoop(e, from_node, succs, i + 1, r[2])

Dfs(e, from_node, node_id, visited) ==
    IF node_id = from_node THEN <<TRUE, visited>>
    ELSE IF node_id \in visited THEN <<FALSE, visited>>
    ELSE DfsLoop(e, from_node, EdgesGet(e, node_id), 1, visited \cup {node_id})

\* a search that looks at the direct successors of to_node only
CreatesCycleShallow(e, from_node, to_node) ==
    to_node = from_node \/ from_node \in Range(EdgesGet(e, to_node))

CreatesCycle(e, from_node, to_node) == Dfs(e, from_node, to_node, {})[1]

\* number of entries in all the lists of a map id -> list
RECURSIVE TotalLen(_, _)
TotalLen(rel, S) ==
    IF S = {} THEN 0
    ELSE LET n == CHOOSE x \in S : TRUE
         IN Len(rel[n]) + TotalLen(rel, S \ {n})

\* edges accepted so far, and dependencies entries that came with the nodes
TotalEdges == TotalLen(edges, nodes)
TotalPreDeps == TotalLen(dependencies, nodes) - TotalEdges

(***************************************************************************)
(* add_node(node): node.id = id, node.dependencies = deps as the caller    *)
(* built it.                                                               *)
(***************************************************************************)
AddNode(id, deps) ==
    IF id \in nodes
    THEN /\ call' = [op |-> "add_node", a |-> id, b |-> 0, raised |-> "exists"]
         /\ UNCHANGED <<nodes, edges, dependencies, ovars, dvars, xvars>>
    ELSE /\ TotalPreDeps + Len(deps) <= MaxPreDeps
         /\ nodes' = nodes \cup {id}
         /\ dependencies' = [n \in nodes \cup {id} |->
                                IF n = id THEN deps ELSE dependencies[n]]
         /\ edges' = [n \in nodes \cup {id} |->
                                IF n = id THEN << >> ELSE edges[n]]
         /\ call' = [op |-> "add_node", a |-> id, b |-> 0, raised |-> "none"]
         /\ UNCHANGED <<ovars, dvars, xvars>>

(***************************************************************************)
(* add_edge(from_node_id, to_node_id)                                      *)
(***************************************************************************)
AddEdge(from_node_id, to_node_id) ==
    IF from_node_id \notin nodes \/ to_node_id \notin nodes
    THEN /\ call' = [op |-> "add_edge", a |-> from_node_id, b |-> to_node_id,
                     raised |-> "not_found"]
         /\ UNCHANGED <<nodes, edges, dependencies, ovars, dvars, xvars>>
    ELSE IF CreatesCycle(edges, from_node_id, to_node_id)
    THEN /\ call' = [op |-> "add_edge", a |-> from_node_id, b |-> to_node_id,
                     raised |-> "cycle"]
         /\ UNCHANGED <<nodes, edges, dependencies, ovars, dvars, xvars>>
    ELSE /\ TotalEdges < MaxEdges
         /\ edges' = [edges EXCEPT ![from_node_id] = Append(@, to_node_id)]
         /\ dependencies' = [dependencies EXCEPT
                                ![to_node_id] = Append(@, from_node_id)]
         /\ call' = [op |-> "add_edge", a |-> from_node_id, b |-> to_node_id,
                     raised |-> "none"]
         /\ UNCHANGED <<nodes, ovars, dvars, xvars>>

GraphNext ==
    \/ \E id \in NodeIds, deps \in PreDeps : AddNode(id, deps)
    \/ \E f \in NodeIds, t \in NodeIds : AddEdge(f, t)

(***************************************************************************)
(* WorkflowOrchestrator (workflow_orchestrator.py).                        *)
(***************************************************************************)
StepIds == 1..MaxSteps
\* ids a dependencies list may name; 0 is an id of no step of the template
DepIds == 0..MaxSteps

RECURSIVE ArcCount(_, _)
ArcCount(d, S) ==
    IF S = {} THEN 0
    ELSE LET s == CHOOSE x \in S : TRUE
         IN Cardinality(d[s]) + ArcCount(d, S \ {s})

\* template['steps']: the dependencies of each step, in template order 1..n
Templates ==
    {d \in [StepIds -> SUBSET DepIds] : ArcCount(d, StepIds) <= MaxArcs}

\* error_handling['fallback_strategy'] as a definition may carry it; the
\* orchestrator never reads the key
FallbackStrategies == {"continue_other_steps", "partial_results"}

ErrorHandlings == [retry_failed_steps : BOOLEAN,
                   max_retries : 0..MaxRetries,
                   fallback_strategy : FallbackStrategies]

\* step.error of a step no attempt of which has raised: None
NoError == "none"

\* str(e) of the exception a step body raised
BodyError == "body raised"

NoResult == [status |-> "none", success |-> FALSE, steps_completed |-> 0,
             steps_failed |-> 0, total_steps |-> 0, error |-> "none"]

\* WorkflowStep and WorkflowExecution as their constructors leave them:
\* every step PENDING, retry_count 0, no error
NewExecution ==
    /\ stepStatus = [s \in StepIds |-> "pending"]
    /\ retry_count = [s \in StepIds |-> 0]
    /\ completed_steps = {}
    /\ failed_steps = {}
    /\ ready_steps = << >>
    /\ taskIdx = 0
    /\ pc = "start"
    /\ stepPc = [s \in StepIds |-> "idle"]
    /\ execStatus = "initializing"
    /\ execError = "none"
    /\ result = NoResult
    /\ invocations = [s \in StepIds |-> 0]
    /\ progress = "none"
    /\ slept = [s \in StepIds |-> << >>]
    /\ step_error = [s \in StepIds |-> NoError]

\* _create_workflow_execution for execute_workflow without a callback
CreateWorkflowExecution ==
    /\ stepDeps \in Templates
    /\ error_handling \in ErrorHandlings
    /\ callback = FALSE
    /\ NewExecution

\* _create_workflow_execution for execute_workflow(..., callback=callback)
CreateWorkflowExecutionWithCallback ==
    /\ stepDeps \in Templates
    /\ error_handling \in ErrorHandlings
    /\ callback = TRUE
    /\ NewExecution

\* _create_workflow_execution for a template of independent steps that
\* allows MaxBackoffs retries, the default of error_handling.get is 3
CreateWorkflowExecutionWithRetries ==
    /\ stepDeps = [s \in StepIds |-> {}]
    /\ error_handling = [retry_failed_steps |-> TRUE,
                         max_retries |-> MaxBackoffs,
                         fallback_strategy |-> "partial_results"]
    /\ callback = FALSE
    /\ NewExecution

\* a dependency check that is satisfied by one completed dependency
DepsCompletedAny(s, completed) ==
    stepDeps[s] = {} \/ \E dep_id \in stepDeps[s] : dep_id \in completed

\* a dependency check that takes a failed dependency for a finished one
DepsCompletedOrFailed(s, completed) ==
    \A dep_id \in stepDeps[s] : dep_id \in completed \cup failed_steps

\* deps_completed = all(dep_id in completed for dep_id in step.dependencies)
DepsCompleted(s, completed) ==
    \A dep_id \in stepDeps[s] : dep_id \in completed

\* _get_ready_steps: the loop over steps.items(), from step i on
RECURSIVE ReadyFrom(_, _, _)
ReadyFrom(i, completed, failed) ==
    IF i > MaxSteps THEN << >>
    ELSE IF i \in completed \/ i \in failed
         THEN ReadyFrom(i + 1, completed, failed)
    ELSE IF DepsCompleted(i, completed)
         THEN <<i>> \o ReadyFrom(i + 1, completed, failed)
    ELSE ReadyFrom(i + 1, completed, failed)

GetReadySteps(completed, failed) == ReadyFrom(1, completed, failed)

\* a backoff that waits 2 seconds before every retry
FixedDelay(count) == 2

\* 2 ** step.retry_count, evaluated after the increment
BackoffDelay(count) == 2 ^ count

\* a progress update whose exception leaves _execute_workflow_steps
PcAfterCallbackErrorRaised == "finalize"

\* _send_progress_update logs the exception of the callback and returns
PcAfterCallbackError == "loop"

\* a retry test that allows one attempt too many
CanRetryOffByOne(s) == retry_count[s] <= error_handling.max_retries

\* if step.retry_count < max_retries
CanRetry(s) == retry_count[s] < error_handling.max_retries

\* a scheduler that goes on after every failure
GoOnAfterFailure == FALSE

\* if not error_handling.get('retry_failed_steps', True)
StopOnFailure == ~error_handling.retry_failed_steps

\* f"Step {step_id} failed: {e}"
StepFailedError(s) == "Step " \o ToString(s) \o " failed"

\* a stuck scheduler that goes round the loop again
PcAfterStuckContinue == "loop"

\* the break that leaves the while loop when no step is ready
PcAfterStuck == "finalize"

\* a round that is left after its first task
RoundDrainedEarly(idx) == idx > 1

\* "for step_id, task in step_tasks" has no task left
RoundDrained(idx) == idx > Len(ready_steps)

\* execute_workflow up to the first statement of _execute_workflow_steps
Begin ==
    /\ pc = "start"
    /\ execStatus' = "running"
    /\ pc' = "loop"
    /\ UNCHANGED <<gvars, dvars, xvars,
                   callback, progress, slept, step_error,
                   stepDeps, error_handling, stepStatus, retry_count,
                   completed_steps, failed_steps, ready_steps, taskIdx,
                   stepPc, execError, result, invocations>>

\* one evaluation of the while condition, _get_ready_steps, the stuck check
\* and the creation of the round's coroutines (none of them started)
LoopHead ==
    /\ pc = "loop"
    /\ IF Cardinality(completed_steps) + Cardinality(failed_steps)
              < Cardinality(StepIds)
       THEN LET ready == GetReadySteps(completed_steps, failed_steps)
                remaining_steps == (StepIds \ completed_steps) \ failed_steps
            IN IF ready = << >>
               THEN /\ execError' = IF remaining_steps # {} THEN "blocked"
                                    ELSE execError
                    /\ pc' = PcAfterStuck
                    /\ UNCHANGED <<ready_steps, taskIdx>>
               ELSE /\ ready_steps' = ready
                    /\ taskIdx' = 1
                    /\ pc' = "await"
                    /\ UNCHANGED execError
       ELSE /\ pc' = "finalize"
            /\ UNCHANGED <<ready_steps, taskIdx, execError>>
    /\ UNCHANGED <<gvars, dvars, xvars,
                   callback, progress, slept, step_error,
                   stepDeps, error_handling, stepStatus, retry_count,
                   completed_steps, failed_steps, stepPc, execStatus,
                   result, invocations>>

\* "await task" on the task at taskIdx: _execute_step runs from its first
\* statement (status RUNNING, agent selection, context) into the step body
StartStep(s) ==
    /\ pc = "await"
    /\ taskIdx <= Len(ready_steps)
    /\ s = ready_steps[taskIdx]
    /\ stepPc[s] = "idle"
    /\ stepStatus' = [stepStatus EXCEPT ![s] = "running"]
    /\ stepPc' = [stepPc EXCEPT ![s] = "body"]
    /\ invocations' = [invocations EXCEPT ![s] = @ + 1]
    /\ UNCHANGED <<gvars, dvars, xvars,
                   callback, progress, slept, step_error,
                   stepDeps, error_handling, retry_count, completed_steps,
                   failed_steps, ready_steps, taskIdx, pc, execStatus,
                   execError, result>>

\* the next iteration of the for loop over step_tasks; after the last one
\* the progress update, if a callback was given, and back to the while
\* condition
NextTask ==
    /\ taskIdx' = taskIdx + 1
    /\ pc' = IF ~RoundDrained(taskIdx + 1) THEN "await"
             ELSE IF callback THEN "progress"
             ELSE "loop"

\* the body returns: status COMPLETED, the awaiting scheduler adds the step
\* to completed_steps
BodyReturn(s) ==
    /\ pc = "await"
    /\ stepPc[s] = "body"
    /\ stepStatus' = [stepStatus EXCEPT ![s] = "completed"]
    /\ stepPc' = [stepPc EXCEPT ![s] = "finished"]
    /\ completed_steps' = completed_steps \cup {s}
    /\ NextTask
    /\ UNCHANGED <<gvars, dvars, xvars,
                   callback, progress, slept, step_error,
                   stepDeps, error_handling, retry_count, failed_steps,
                   ready_steps, execStatus, execError, result, invocations>>

\* the body raises: either a retry is scheduled (RETRYING, then the
\* backoff sleep) or the exception reaches the scheduler
BodyRaise(s) ==
    /\ pc = "await"
    /\ stepPc[s] = "body"
    /\ step_error' = [step_error EXCEPT ![s] = BodyError]
    /\ IF CanRetry(s)
       THEN /\ retry_count' = [retry_count EXCEPT ![s] = @ + 1]
            /\ stepStatus' = [stepStatus EXCEPT ![s] = "retrying"]
            /\ stepPc' = [stepPc EXCEPT ![s] = "sleep"]
            /\ slept' = [slept EXCEPT
                             ![s] = Append(@, BackoffDelay(retry_count[s] + 1))]
            /\ UNCHANGED <<failed_steps, taskIdx, pc, execError>>
       ELSE /\ stepStatus' = [stepStatus EXCEPT ![s] = "failed"]
            /\ stepPc' = [stepPc EXCEPT ![s] = "finished"]
            /\ failed_steps' = failed_steps \cup {s}
            /\ UNCHANGED slept
            /\ IF StopOnFailure
               THEN /\ execError' = StepFailedError(s)
                    /\ pc' = "finalize"
                    /\ UNCHANGED taskIdx
               ELSE /\ NextTask
                    /\ UNCHANGED execError
            /\ UNCHANGED retry_count
    /\ UNCHANGED <<gvars, dvars, xvars,
                   callback, progress,
                   stepDeps, error_handling, completed_steps, ready_steps,
                   execStatus, result, invocations>>

\* asyncio.sleep(2 ** retry_count) is over: _execute_step runs again
BackoffDone(s) ==
    /\ pc = "await"
    /\ stepPc[s] = "sleep"
    /\ stepStatus' = [stepStatus EXCEPT ![s] = "running"]
    /\ stepPc' = [stepPc EXCEPT ![s] = "body"]
    /\ invocations' = [invocations EXCEPT ![s] = @ + 1]
    /\ UNCHANGED <<gvars, dvars, xvars,
                   callback, progress, slept, step_error,
                   stepDeps, error_handling, retry_count, completed_steps,
                   failed_steps, ready_steps, taskIdx, pc, execStatus,
                   execError, result>>

\* _send_progress_update: the progress dict is built and the callback is
\* called; it returns or raises, and an exception is logged
SendProgressUpdate(raised) ==
    /\ pc = "progress"
    /\ progress' = IF raised THEN "raised" ELSE "sent"
    /\ pc' = IF raised THEN PcAfterCallbackError ELSE "loop"
    /\ UNCHANGED <<gvars, dvars, xvars,
                   stepDeps, error_handling, stepStatus, retry_count,
                   completed_steps, failed_steps, ready_steps, taskIdx,
                   stepPc, execStatus, execError, result, invocations,
                   callback, slept, step_error>>

\* _compile_workflow_results
CompileWorkflowResults(status) ==
    [status |-> status,
     success |-> (status = "completed"),
     steps_completed |->
         Cardinality({s \in StepIds : stepStatus[s] = "completed"}),
     steps_failed |->
         Cardinality({s \in StepIds : stepStatus[s] = "failed"}),
     total_steps |-> Cardinality(StepIds),
     error |-> execError,
     step_details |->
         [s \in StepIds |-> [status |-> stepStatus[s],
                             retry_count |-> retry_count[s],
                             error |-> step_error[s]]]]

\* execute_workflow after _execute_workflow_steps has returned
Finalize ==
    /\ pc = "finalize"
    /\ LET status == IF execError = "none" THEN "completed" ELSE "failed"
       IN /\ execStatus' = status
          /\ result' = CompileWorkflowResults(status)
    /\ pc' = "done"
    /\ UNCHANGED <<gvars, dvars, xvars,
                   callback, progress, slept, step_error,
                   stepDeps, error_handling, stepStatus, retry_count,
                   completed_steps, failed_steps, ready_steps, taskIdx,
                   stepPc, execError, invocations>>

OrchNext ==
    \/ Begin
    \/ LoopHead
    \/ \E s \in StepIds : StartStep(s)
    \/ \E s \in StepIds : BodyReturn(s)
    \/ \E s \in StepIds : BodyRaise(s)
    \/ \E s \in StepIds : BackoffDone(s)
    \/ Finalize

\* an execution that was given a callback
OrchCallbackNext ==
    \/ OrchNext
    \/ \E raised \in BOOLEAN : SendProgressUpdate(raised)

(***************************************************************************)
(* WorkflowEngine of workflow_dag.py: execute_workflow(dag).               *)
(***************************************************************************)
\* a set of ids as the list that iterating a dict in insertion order gives
RECURSIVE SeqOf(_)
SeqOf(S) ==
    IF S = {} THEN << >>
    ELSE LET m == CHOOSE x \in S : \A y \in S : x <= y
         IN <<m>> \o SeqOf(S \ {m})

\* keys of node.outputs: a task node whose action returns no dict stores
\* {'result': result}, a condition node {'condition_result': result}
OutputKeys == {"result", "condition_result"}

\* values an action or a condition may return
OutputValues == {"x", "y"}

\* the key is absent from the dict
NoValue == "absent"

\* self.context = {}
NoContext == [k \in OutputKeys |-> NoValue]

\* dag.context.update(node.outputs)
ContextUpdate(ctx, k, v) == [ctx EXCEPT ![k] = v]

RECURSIVE DagArcCount(_, _)
DagArcCount(d, S) ==
    IF S = {} THEN 0
    ELSE LET n == CHOOSE x \in S : TRUE
         IN Cardinality(d[n]) + DagArcCount(d, S \ {n})

\* the dependencies lists of a dag whose nodes were all handed to add_node
DagDependencies ==
    {[n \in NodeIds |-> SeqOf(d[n])] :
        d \in {e \in [NodeIds -> SUBSET NodeIds] :
                  DagArcCount(e, NodeIds) <= MaxArcs}}

\* the engine before any execute_workflow call
DagIdle ==
    /\ node_status = [n \in NodeIds |-> "pending"]
    /\ node_retry_count = [n \in NodeIds |-> 0]
    /\ node_max_retries = 0
    /\ completed_nodes = {}
    /\ failed_nodes = {}
    /\ executable_nodes = << >>
    /\ gathered = [n \in NodeIds |-> "none"]
    /\ nodePc = [n \in NodeIds |-> "idle"]
    /\ dpc = "idle"
    /\ dagResult = "none"
    /\ node_invocations = [n \in NodeIds |-> 0]
    /\ dag_context = NoContext
    /\ previous_runs = << >>

\* a freshly built dag is handed to execute_workflow
DagEngineStart ==
    /\ nodes = NodeIds
    /\ dependencies \in DagDependencies
    /\ edges = [n \in NodeIds |-> << >>]
    /\ call = NoCall
    /\ node_status = [n \in NodeIds |-> "pending"]
    /\ node_retry_count = [n \in NodeIds |-> 0]
    /\ node_max_retries \in 0..MaxRetries
    /\ completed_nodes = {}
    /\ failed_nodes = {}
    /\ executable_nodes = << >>
    /\ gathered = [n \in NodeIds |-> "none"]
    /\ nodePc = [n \in NodeIds |-> "idle"]
    /\ dpc = "start"
    /\ dagResult = "none"
    /\ node_invocations = [n \in NodeIds |-> 0]
    /\ dag_context = NoContext
    /\ previous_runs = << >>

\* a readiness test that is satisfied by one completed dependency
CanExecuteAny(n, completed) ==
    \/ dependencies[n] = << >>
    \/ \E dep \in Range(dependencies[n]) : dep \in completed

\* WorkflowNode.can_execute
CanExecute(n, completed) ==
    \A dep \in Range(dependencies[n]) : dep \in completed

\* WorkflowDAG.get_start_nodes
GetStartNodes ==
    SelectSeq(SeqOf(nodes), LAMBDA n : dependencies[n] = << >>)

\* WorkflowDAG.get_executable_nodes, then the filter on failed_nodes
GetExecutableNodes(status, completed, failed) ==
    SelectSeq(SeqOf(nodes),
              LAMBDA n : /\ status[n] = "pending"
                         /\ CanExecute(n, completed)
                         /\ (failed # {} =>
                               ~\E dep \in Range(dependencies[n]) :
                                    dep \in failed))

\* a retry test that allows one attempt too many
NodeCanRetryOffByOne(n) == node_retry_count[n] <= node_max_retries

\* if node.retry_count < node.max_retries
NodeCanRetry(n) == node_retry_count[n] < node_max_retries

\* a gather that hands over as soon as one task of the wave has finished
WaveDrainedEarly ==
    \E n \in Range(executable_nodes) : nodePc[n] = "done"

\* asyncio.gather returns when every task of the wave has finished
WaveDrained ==
    \A n \in Range(executable_nodes) : nodePc[n] = "done"

\* executable_nodes = dag.get_start_nodes()
DagBegin ==
    /\ dpc = "start"
    /\ executable_nodes' = GetStartNodes
    /\ dpc' = "while"
    /\ UNCHANGED <<gvars, ovars, xvars, dag_context, node_status,
                   node_retry_count, node_max_retries, completed_nodes,
                   failed_nodes, gathered, nodePc, dagResult, node_invocations>>

\* while executable_nodes: create the tasks of the wave; an empty list ends
\* the loop and the overall status is determined
DagWhile ==
    /\ dpc = "while"
    /\ IF executable_nodes # << >>
       THEN /\ dpc' = "gather"
            /\ nodePc' = [n \in NodeIds |->
                            IF n \in Range(executable_nodes) THEN "idle"
                            ELSE nodePc[n]]
            /\ gathered' = [n \in NodeIds |->
                            IF n \in Range(executable_nodes) THEN "none"
                            ELSE gathered[n]]
            /\ UNCHANGED dagResult
       ELSE /\ dpc' = "done"
            /\ dagResult' = IF completed_nodes = nodes THEN "completed"
                            ELSE IF failed_nodes # {} THEN "failed"
                            ELSE "partial"
            /\ UNCHANGED <<nodePc, gathered>>
    /\ UNCHANGED <<gvars, ovars, xvars, dag_context, node_status,
                   node_retry_count, node_max_retries, completed_nodes,
                   failed_nodes, executable_nodes, node_invocations>>

\* the event loop starts the task of n: node.status = RUNNING and the body
\* of the node is entered; the tasks of a wave start in any order
ExecuteNode(n) ==
    /\ dpc = "gather"
    /\ n \in Range(executable_nodes)
    /\ nodePc[n] = "idle"
    /\ node_status' = [node_status EXCEPT ![n] = "running"]
    /\ nodePc' = [nodePc EXCEPT ![n] = "body"]
    /\ node_invocations' = [node_invocations EXCEPT ![n] = @ + 1]
    /\ UNCHANGED <<gvars, ovars, xvars, dag_context, node_retry_count,
                   node_max_retries, completed_nodes, failed_nodes,
                   executable_nodes, gathered, dpc, dagResult>>

\* the body returns True with node.outputs set from what the action or the
\* condition returned (key k, value v), or False without outputs (a task
\* node without action); the outputs are merged into dag.context
NodeReturn(n, r, k, v) ==
    /\ nodePc[n] = "body"
    /\ nodePc' = [nodePc EXCEPT ![n] = "done"]
    /\ gathered' = [gathered EXCEPT ![n] = IF r THEN "true" ELSE "false"]
    /\ dag_context' = IF r THEN ContextUpdate(dag_context, k, v)
                      ELSE dag_context
    /\ UNCHANGED <<gvars, ovars, xvars, node_status, node_retry_count,
                   node_max_retries, completed_nodes, failed_nodes,
                   executable_nodes, dpc, dagResult, node_invocations>>

\* the body raises: retry after a backoff sleep, or re-raise into gather
NodeRaise(n) ==
    /\ nodePc[n] = "body"
    /\ IF NodeCanRetry(n)
       THEN /\ node_retry_count' = [node_retry_count EXCEPT ![n] = @ + 1]
            /\ node_status' = [node_status EXCEPT ![n] = "retrying"]
            /\ nodePc' = [nodePc EXCEPT ![n] = "sleep"]
            /\ UNCHANGED gathered
       ELSE /\ nodePc' = [nodePc EXCEPT ![n] = "done"]
            /\ gathered' = [gathered EXCEPT ![n] = "exception"]
            /\ UNCHANGED <<node_retry_count, node_status>>
    /\ UNCHANGED <<gvars, ovars, xvars, dag_context, node_max_retries,
                   completed_nodes, failed_nodes, executable_nodes, dpc,
                   dagResult, node_invocations>>

\* the backoff sleep ends: return await self._execute_node(dag, node)
NodeBackoffDone(n) ==
    /\ nodePc[n] = "sleep"
    /\ node_status' = [node_status EXCEPT ![n] = "running"]
    /\ nodePc' = [nodePc EXCEPT ![n] = "body"]
    /\ node_invocations' = [node_invocations EXCEPT ![n] = @ + 1]
    /\ UNCHANGED <<gvars, ovars, xvars, dag_context, node_retry_count,
                   node_max_retries, completed_nodes, failed_nodes,
                   executable_nodes, gathered, dpc, dagResult>>

\* gather has returned: process the results of the wave and compute the
\* next executable nodes
ProcessResults ==
    /\ dpc = "gather"
    /\ WaveDrained
    /\ LET wave == Range(executable_nodes)
           failed == failed_nodes \cup {n \in wave : gathered[n] = "exception"}
           completed == completed_nodes \cup {n \in wave : gathered[n] = "true"}
           status == [n \in NodeIds |->
                        IF n \notin wave THEN node_status[n]
                        ELSE IF gathered[n] = "exception" THEN "failed"
                        ELSE IF gathered[n] = "true" THEN "success"
                        ELSE "skipped"]
       IN /\ failed_nodes' = failed
          /\ completed_nodes' = completed
          /\ node_status' = status
          /\ executable_nodes' = GetExecutableNodes(status, completed, failed)
    /\ dpc' = "while"
    /\ UNCHANGED <<gvars, ovars, xvars, dag_context, node_retry_count,
                   node_max_retries, gathered, nodePc, dagResult,
                   node_invocations>>

\* execute_workflow is called again with the dag of the call that has
\* returned: completed_nodes and failed_nodes are new empty sets, the nodes
\* and the context of the dag are as the last call left them
ExecuteWorkflowAgain ==
    /\ dpc = "done"
    /\ Len(previous_runs) + 1 < MaxRuns
    /\ previous_runs' =
           Append(previous_runs,
                  [status |-> dagResult, invocations |-> node_invocations])
    /\ completed_nodes' = {}
    /\ failed_nodes' = {}
    /\ executable_nodes' = << >>
    /\ node_invocations' = [n \in NodeIds |-> 0]
    /\ dagResult' = "none"
    /\ dpc' = "start"
    /\ UNCHANGED <<gvars, ovars, services, dag_context, node_status,
                   node_retry_count, node_max_retries, gathered, nodePc>>

DagNext ==
    \/ DagBegin
    \/ DagWhile
    \/ \E n \in NodeIds : ExecuteNode(n)
    \/ \E n \in NodeIds, r \in BOOLEAN, k \in OutputKeys, v \in OutputValues :
          NodeReturn(n, r, k, v)
    \/ \E n \in NodeIds : NodeRaise(n)
    \/ \E n \in NodeIds : NodeBackoffDone(n)
    \/ ProcessResults

\* a dag that is executed more than once
DagRerunNext ==
    \/ DagNext
    \/ ExecuteWorkflowAgain

(***************************************************************************)
(* PerformanceTracker._update_agent_metrics (performance_tracker.py) for   *)
(* one agent and one task_type.  Execution times and accuracies are exact  *)
(* rationals <<numerator, denominator>> in lowest terms.                   *)
(***************************************************************************)
Recordings == 1..MaxRecordings

RECURSIVE GCD(_, _)
GCD(a, b) == IF b = 0 THEN a ELSE GCD(b, a % b)

\* the rational a/b (a >= 0, b > 0) in lowest terms
Rat(a, b) == LET g == GCD(a, b) IN <<a \div g, b \div g>>

RatAdd(r, q) == Rat(r[1] * q[2] + q[1] * r[2], r[2] * q[2])

RatTimes(r, k) == Rat(r[1] * k, r[2])

RatOver(r, k) == Rat(r[1], r[2] * k)

\* the execution_time arguments of a recording, in seconds
Durations == {<<d, 1>> : d \in 1..MaxDuration}

\* accuracy=None
NoAccuracy == << >>

\* the accuracy arguments of a recording
Accuracies == {<<1, 2>>, <<1, 1>>, NoAccuracy}

\* metrics.get(task_type, {...}): the default dict of a first recording
NoMetrics ==
    [total_executions |-> 0, successful_executions |-> 0,
     avg_execution_time |-> <<0, 1>>, avg_accuracy |-> <<0, 1>>]

\* history of the finished recordings: how many, how many successful, the
\* sum of their execution times, how many supplied an accuracy and the sum
\* of the supplied accuracies
NoRecord ==
    [n |-> 0, successes |-> 0, time_sum |-> <<0, 1>>,
     acc_n |-> 0, acc_sum |-> <<0, 1>>]

\* the locals of a call that is not between its read and its save
NoLocal == << >>

\* no recording was made yet
TrackerIdle ==
    /\ task_metrics = NoMetrics
    /\ recPc = [p \in Recordings |-> "idle"]
    /\ recLocal = [p \in Recordings |-> NoLocal]
    /\ recorded = NoRecord

\* a running average that weighs the previous average with n
RunningAverageFullWeight(prev, n, x) ==
    RatOver(RatAdd(RatTimes(prev, n), x), n)

\* (prev_avg * (n - 1) + value) / n
RunningAverage(prev, n, x) ==
    RatOver(RatAdd(RatTimes(prev, n - 1), x), n)

\* the in-memory update of the task_metrics dict
UpdatedMetrics(m, execution_time, success, accuracy) ==
    LET n == m.total_executions + 1
    IN [total_executions |-> n,
        successful_executions |->
            IF success THEN m.successful_executions + 1
            ELSE m.successful_executions,
        avg_execution_time |->
            RunningAverage(m.avg_execution_time, n, execution_time),
        avg_accuracy |->
            IF accuracy # NoAccuracy
            THEN RunningAverage(m.avg_accuracy, n, accuracy)
            ELSE m.avg_accuracy]

\* Agent.objects.get(id=agent_id) and the update of the dict in memory;
\* recordings are numbered in the order in which they start
UpdateGet(p, execution_time, success, accuracy) ==
    /\ recPc[p] = "idle"
    /\ \A q \in Recordings : q < p => recPc[q] # "idle"
    /\ recLocal' = [recLocal EXCEPT ![p] =
                       [metrics |-> UpdatedMetrics(task_metrics,
                                       execution_time, success, accuracy),
                        execution_time |-> execution_time,
                        success |-> success,
                        accuracy |-> accuracy]]
    /\ recPc' = [recPc EXCEPT ![p] = "loaded"]
    /\ UNCHANGED <<othersP, task_metrics, recorded>>

\* agent.save(update_fields=['configuration'])
UpdateSave(p) ==
    /\ recPc[p] = "loaded"
    /\ task_metrics' = recLocal[p].metrics
    /\ recorded' =
          [n |-> recorded.n + 1,
           successes |-> IF recLocal[p].success THEN recorded.successes + 1
                         ELSE recorded.successes,
           time_sum |-> RatAdd(recorded.time_sum, recLocal[p].execution_time),
           acc_n |-> IF recLocal[p].accuracy # NoAccuracy
                     THEN recorded.acc_n + 1 ELSE recorded.acc_n,
           acc_sum |-> IF recLocal[p].accuracy # NoAccuracy
                       THEN RatAdd(recorded.acc_sum, recLocal[p].accuracy)
                       ELSE recorded.acc_sum]
    /\ recPc' = [recPc EXCEPT ![p] = "done"]
    /\ recLocal' = [recLocal EXCEPT ![p] = NoLocal]
    /\ UNCHANGED othersP

\* recordings made by concurrent callers
TrackerNext ==
    \/ \E p \in Recordings, t \in Durations, ok \in BOOLEAN, a \in Accuracies :
          UpdateGet(p, t, ok, a)
    \/ \E p \in Recordings : UpdateSave(p)

\* a recording that begins only when the one before it has returned
SequentialGet(p, execution_time, success, accuracy) ==
    /\ \A q \in Recordings : recPc[q] # "loaded"
    /\ UpdateGet(p, execution_time, success, accuracy)

\* recordings made one after the other
TrackerSeqNext ==
    \/ \E p \in Recordings, t \in Durations, ok \in BOOLEAN, a \in Accuracies :
          SequentialGet(p, t, ok, a)
    \/ \E p \in Recordings : UpdateSave(p)

(***************************************************************************)
(* The sequential engine, WorkflowEngine of workflow_engine.py: one        *)
(* execute_workflow call, and cancel_workflow calls made meanwhile by      *)
(* other tasks of the event loop.                                          *)
(***************************************************************************)
\* Kahn's algorithm as _topological_sort runs it: the queue starts with the
\* steps without dependencies in dict order, and a popped step releases its
\* dependents in dict order
RECURSIVE Kahn(_, _, _, _)
Kahn(graph, in_degree, queue, sorted) ==
    IF queue = << >> THEN sorted
    ELSE LET node == Head(queue)
             hit == {o \in StepIds : node \in graph[o]}
             deg == [o \in StepIds |->
                        IF o \in hit THEN in_degree[o] - 1 ELSE in_degree[o]]
         IN Kahn(graph, deg, Tail(queue) \o SeqOf({o \in hit : deg[o] = 0}),
                 Append(sorted, node))

TopologicalSort(graph) ==
    LET in_degree == [n \in StepIds |-> Cardinality(graph[n])]
    IN Kahn(graph, in_degree, SeqOf({n \in StepIds : in_degree[n] = 0}), << >>)

\* len(result) != len(graph): "Circular dependency detected in workflow"
CircularDependency(graph) == Len(TopologicalSort(graph)) # MaxSteps

\* a loop that runs a step whatever became of its dependencies
DependenciesIgnored(s) == TRUE

\* _are_dependencies_satisfied: every dependency has an entry in results
AreDependenciesSatisfied(s) == wfDeps[s] \subseteq wfResults

\* the engine before any execute_workflow call
EngineIdle ==
    /\ wfDeps = << >>
    /\ wfCritical = << >>
    /\ wfStepStatus = << >>
    /\ wfResults = {}
    /\ execution_order = << >>
    /\ orderIdx = 0
    /\ wfPc = "idle"
    /\ ctxStatus = "none"
    /\ running_workflows = FALSE
    /\ wfReturn = "none"
    /\ noAgentSteps = {}
    /\ bodyInvoked = {}
    /\ cancelReturn = "none"
    /\ cancelAccepted = FALSE
    /\ pendingAtCancel = {}

\* execute_workflow up to the call of _execute_workflow_steps: the steps are
\* parsed (status 'pending'), the context has status 'running' and is stored
\* in running_workflows
ExecuteWorkflowStart ==
    /\ wfDeps \in Templates
    /\ wfCritical \in [StepIds -> BOOLEAN]
    /\ wfStepStatus = [s \in StepIds |-> "pending"]
    /\ wfResults = {}
    /\ execution_order = << >>
    /\ orderIdx = 0
    /\ wfPc = "sort"
    /\ ctxStatus = "running"
    /\ running_workflows = TRUE
    /\ wfReturn = "none"
    /\ noAgentSteps = {}
    /\ bodyInvoked = {}
    /\ cancelReturn = "none"
    /\ cancelAccepted = FALSE
    /\ pendingAtCancel = {}

\* _build_dependency_graph and _topological_sort; the exception of a cycle is
\* caught by the outer handler, which returns success False
SortSteps ==
    /\ wfPc = "sort"
    /\ IF CircularDependency(wfDeps)
       THEN /\ wfReturn' = "failure"
            /\ wfPc' = "returned"
            /\ UNCHANGED <<execution_order, orderIdx>>
       ELSE /\ execution_order' = TopologicalSort(wfDeps)
            /\ orderIdx' = 1
            /\ wfPc' = "loop"
            /\ UNCHANGED wfReturn
    /\ UNCHANGED <<noAgentSteps, bodyInvoked, wfDeps, wfCritical,
                   wfStepStatus, wfResults, ctxStatus, running_workflows,
                   cancelReturn, cancelAccepted, pendingAtCancel, othersW>>

\* loop body, dependencies not satisfied: status 'skipped', continue
SkipStep ==
    /\ wfPc = "loop"
    /\ orderIdx <= Len(execution_order)
    /\ ~AreDependenciesSatisfied(execution_order[orderIdx])
    /\ wfStepStatus' = [wfStepStatus EXCEPT ![execution_order[orderIdx]] =
                           "skipped"]
    /\ orderIdx' = orderIdx + 1
    /\ UNCHANGED <<noAgentSteps, bodyInvoked, wfDeps, wfCritical, wfResults,
                   execution_order, wfPc, ctxStatus, running_workflows,
                   wfReturn, cancelReturn, cancelAccepted, pendingAtCancel,
                   othersW>>

\* loop body, dependencies satisfied: status 'running', _execute_step is
\* entered
RunStep ==
    /\ wfPc = "loop"
    /\ orderIdx <= Len(execution_order)
    /\ AreDependenciesSatisfied(execution_order[orderIdx])
    /\ wfStepStatus' = [wfStepStatus EXCEPT ![execution_order[orderIdx]] =
                           "running"]
    /\ wfPc' = "executing"
    /\ UNCHANGED <<noAgentSteps, bodyInvoked, wfDeps, wfCritical, wfResults,
                   execution_order, orderIdx, ctxStatus, running_workflows,
                   wfReturn, cancelReturn, cancelAccepted, pendingAtCancel,
                   othersW>>

\* what the loop does with a step_result of success False: status 'failed',
\* and a critical step ends the loop
StepFailed(s) ==
    /\ wfStepStatus' = [wfStepStatus EXCEPT ![s] = "failed"]
    /\ IF wfCritical[s]
       THEN /\ wfReturn' = "failure"
            /\ wfPc' = "returned"
            /\ UNCHANGED orderIdx
       ELSE /\ orderIdx' = orderIdx + 1
            /\ wfPc' = "loop"
            /\ UNCHANGED wfReturn

\* _execute_step calls the executor of the step type.  _execute_agent_task
\* asks select_best_agent for an agent: with an agent (found) the task is
\* created and its execution awaited; without one it raises, _execute_step
\* returns success False and the step fails.  The executors of the other
\* step types start their body without a selection.
InvokeExecutor(found) ==
    /\ wfPc = "executing"
    /\ LET s == execution_order[orderIdx]
       IN IF found
          THEN /\ bodyInvoked' = bodyInvoked \cup {s}
               /\ wfPc' = "awaiting"
               /\ UNCHANGED <<noAgentSteps, wfStepStatus, orderIdx, wfReturn>>
          ELSE /\ noAgentSteps' = noAgentSteps \cup {s}
               /\ StepFailed(s)
               /\ UNCHANGED bodyInvoked
    /\ UNCHANGED <<wfDeps, wfCritical, wfResults, execution_order, ctxStatus,
                   running_workflows, cancelReturn, cancelAccepted,
                   pendingAtCancel, othersW>>

\* the awaited executor has returned (success) or raised: _execute_step
\* returns success True or success False
StepReturn(success) ==
    /\ wfPc = "awaiting"
    /\ LET s == execution_order[orderIdx]
       IN IF success
          THEN /\ wfStepStatus' = [wfStepStatus EXCEPT ![s] = "completed"]
               /\ wfResults' = wfResults \cup {s}
               /\ orderIdx' = orderIdx + 1
               /\ wfPc' = "loop"
               /\ UNCHANGED wfReturn
          ELSE /\ StepFailed(s)
               /\ UNCHANGED wfResults
    /\ UNCHANGED <<noAgentSteps, bodyInvoked, wfDeps, wfCritical,
                   execution_order, ctxStatus, running_workflows,
                   cancelReturn, cancelAccepted, pendingAtCancel, othersW>>

\* the loop is over: return {'success': True}
LoopEnd ==
    /\ wfPc = "loop"
    /\ orderIdx > Len(execution_order)
    /\ wfReturn' = "success"
    /\ wfPc' = "returned"
    /\ UNCHANGED <<noAgentSteps, bodyInvoked, wfDeps, wfCritical,
                   wfStepStatus, wfResults, execution_order, orderIdx,
                   ctxStatus, running_workflows, cancelReturn,
                   cancelAccepted, pendingAtCancel, othersW>>

\* execute_workflow after _execute_workflow_steps: the final status is set
\* from the result, the result dict is returned and the finally clause
\* removes the context from running_workflows
FinishWorkflow ==
    /\ wfPc = "returned"
    /\ ctxStatus' = IF wfReturn = "success" THEN "completed" ELSE "failed"
    /\ running_workflows' = FALSE
    /\ wfPc' = "done"
    /\ UNCHANGED <<noAgentSteps, bodyInvoked, wfDeps, wfCritical,
                   wfStepStatus, wfResults, execution_order, orderIdx,
                   wfReturn, cancelReturn, cancelAccepted, pendingAtCancel,
                   othersW>>

\* cancel_workflow, called by another task: it can run while the engine
\* awaits a step body, and after the engine has returned
CancelWorkflow ==
    /\ wfPc \in {"awaiting", "done"}
    /\ IF running_workflows
       THEN /\ ctxStatus' = "cancelled"
            /\ cancelReturn' = "True"
            /\ cancelAccepted' = TRUE
            /\ pendingAtCancel' =
                  IF cancelAccepted THEN pendingAtCancel
                  ELSE {s \in StepIds : wfStepStatus[s] = "pending"}
       ELSE /\ cancelReturn' = "False"
            /\ UNCHANGED <<ctxStatus, cancelAccepted, pendingAtCancel>>
    /\ UNCHANGED <<noAgentSteps, bodyInvoked, wfDeps, wfCritical,
                   wfStepStatus, wfResults, execution_order, orderIdx, wfPc,
                   running_workflows, wfReturn, othersW>>

\* the dict execute_workflow returns after _execute_workflow_steps
ExecuteWorkflowResult ==
    [workflow_id |-> "workflow",
     success |-> (wfReturn = "success"),
     results |-> wfResults,
     error |-> (wfReturn = "failure"),
     steps_executed |->
         Cardinality({s \in DOMAIN wfStepStatus :
                         wfStepStatus[s] = "completed"}),
     total_steps |-> Cardinality(DOMAIN wfStepStatus)]

EngineNext ==
    \/ SortSteps
    \/ SkipStep
    \/ RunStep
    \/ \E found \in BOOLEAN : InvokeExecutor(found)
    \/ \E success \in BOOLEAN : StepReturn(success)
    \/ LoopEnd
    \/ FinishWorkflow
    \/ CancelWorkflow

(***************************************************************************)
(* SmartAgentSelector.select_best_agent (agent_selector.py).  The scores   *)
(* are exact rationals.                                                    *)
(***************************************************************************)
AgentIds == 1..MaxAgents

RatMul(r, q) == Rat(r[1] * q[1], r[2] * q[2])

RatLess(r, q) == r[1] * q[2] < q[1] * r[2]

RatMin(r, q) == IF RatLess(q, r) THEN q ELSE r

\* AgentType and AgentStatus of models.py
AgentTypes == {"reasoning", "vision"}

AgentStatuses == {"idle", "active", "processing", "error", "offline"}

\* the task type a caller asks for; agents of type 'vision' do not handle it
TaskTypes == {"reasoning"}

\* task_to_agent_mapping.get(task_type.lower(), [])
SuitableAgentTypes(t) ==
    IF t \in {"text"} THEN {"reasoning", "orchestrator"}
    ELSE IF t \in {"vision", "image"} THEN {"vision"}
    ELSE IF t \in {"reasoning", "logic"} THEN {"reasoning"}
    ELSE IF t \in {"action", "execution"} THEN {"action"}
    ELSE IF t \in {"memory", "storage"} THEN {"memory"}
    ELSE IF t \in {"orchestration", "coordination"} THEN {"orchestrator"}
    ELSE {}

\* agent.capabilities: a list of `tags` tags of which `matching` contain the
\* task type
CapabilityLists ==
    {c \in [tags : 0..MaxTags, matching : 0..MaxTags] : c.matching <= c.tags}

\* what get_agent_performance returns for the agent: {} without executions
\* in the window, else success_rate, avg_response_time (seconds), accuracy
NoHistory == [known |-> FALSE, success_rate |-> <<0, 1>>,
              avg_response_time |-> <<0, 1>>, accuracy |-> <<0, 1>>]

Histories ==
    {NoHistory,
     [known |-> TRUE, success_rate |-> <<19, 20>>,
      avg_response_time |-> <<1, 1>>, accuracy |-> <<1, 2>>],
     [known |-> TRUE, success_rate |-> <<1, 2>>,
      avg_response_time |-> <<9, 1>>, accuracy |-> <<1, 2>>]}

\* the Agent rows of the database
Agents == [type : AgentTypes, status : AgentStatuses, is_active : BOOLEAN,
           capabilities : CapabilityLists, history : Histories]

\* the names of features in agent.configuration and in the requirements
Features == {"f1", "f2"}

\* an absent key of a dict, and a present one
Absent == << >>

Present(v) == <<v>>

\* agent.configuration = {}
NoConfiguration ==
    [accuracy |-> Absent, avg_response_time |-> Absent, features |-> {}]

\* agent.configuration: the keys _score_requirements reads
Configurations ==
    {NoConfiguration} \cup
    [accuracy : {Present(<<9, 10>>)},
     avg_response_time : {Present(<<1, 1>>)},
     features : {{}, {"f1"}}]

\* executions that all failed after 20 seconds and recorded no accuracy
FailingHistory ==
    [known |-> TRUE, success_rate |-> <<0, 1>>,
     avg_response_time |-> <<20, 1>>, accuracy |-> <<0, 1>>]

\* what get_agent_performance can return for an agent that is explained
ObservedHistories == Histories \cup {FailingHistory}

\* an Agent object with its configuration
ConfiguredAgents ==
    [type : AgentTypes, status : AgentStatuses, is_active : BOOLEAN,
     capabilities : CapabilityLists, history : ObservedHistories,
     configuration : Configurations]

\* requirements = None, which select_best_agent turns into {}
NoRequirements ==
    [min_accuracy |-> Absent, max_response_time |-> Absent,
     required_features |-> Absent]

\* the requirements argument: the keys _score_requirements looks for; the
\* list required_features may be empty and may name a feature twice
RequirementSets ==
    [min_accuracy : {Absent, Present(<<7, 10>>)},
     max_response_time : {Absent, Present(<<2, 1>>)},
     required_features : {Absent, Present(<< >>),
                          Present(<<"f1", "f2">>), Present(<<"f2", "f2">>)}]

\* an empty task_description: no capability matches it by keyword
NoKeywordMatches == 0

\* _score_capabilities
ScoreCapabilities(a, keywords) ==
    IF a.capabilities.tags = 0 THEN <<0, 1>>
    ELSE RatMin(RatAdd(RatMul(Rat(a.capabilities.matching,
                                  a.capabilities.tags), <<7, 10>>),
                       RatMul(Rat(keywords, a.capabilities.tags),
                              <<3, 10>>)),
                <<1, 1>>)

\* 1 - avg_response_time / 10.0 without the lower limit 0
ResponseTimeScoreUnclamped(t) ==
    Rat(10 * t[2] - t[1], 10 * t[2])

\* max(0, 1 - avg_response_time / 10.0)
ResponseTimeScore(t) ==
    IF ~RatLess(t, <<10, 1>>) THEN <<0, 1>>
    ELSE Rat(10 * t[2] - t[1], 10 * t[2])

\* _score_performance
ScorePerformance(a) ==
    IF ~a.history.known THEN <<1, 2>>
    ELSE RatMin(
           RatAdd(RatAdd(RatMul(a.history.success_rate, <<4, 10>>),
                         RatMul(ResponseTimeScore(a.history.avg_response_time),
                                <<3, 10>>)),
                  RatMul(a.history.accuracy, <<3, 10>>)),
           <<1, 1>>)

\* _score_availability
ScoreAvailability(a) ==
    IF a.status = "idle" THEN <<1, 1>>
    ELSE IF a.status = "active" THEN <<7, 10>>
    ELSE IF a.status = "processing" THEN <<3, 10>>
    ELSE <<0, 1>>

\* _score_requirements
ScoreRequirements(a, reqs) ==
    IF reqs = NoRequirements THEN <<1, 1>>
    ELSE
      LET config == a.configuration
          agent_accuracy ==
              IF config.accuracy = Absent THEN <<1, 2>>
              ELSE config.accuracy[1]
          agent_response_time ==
              IF config.avg_response_time = Absent THEN <<5, 1>>
              ELSE config.avg_response_time[1]
          s1 == IF /\ reqs.min_accuracy # Absent
                   /\ RatLess(agent_accuracy, reqs.min_accuracy[1])
                THEN <<1, 2>> ELSE <<1, 1>>
          s2 == IF /\ reqs.max_response_time # Absent
                   /\ RatLess(reqs.max_response_time[1], agent_response_time)
                THEN RatMul(s1, <<1, 2>>) ELSE s1
          required_features ==
              IF reqs.required_features = Absent THEN << >>
              ELSE reqs.required_features[1]
          missing_features == Range(required_features) \ config.features
          s3 == IF reqs.required_features # Absent /\ missing_features # {}
                THEN RatMul(s2, Rat(Len(required_features)
                                      - Cardinality(missing_features),
                                    Len(required_features)))
                ELSE s2
      IN IF RatLess(s3, <<0, 1>>) THEN <<0, 1>> ELSE s3

\* a total score that leaves the performance history out
CalculateAgentScoreNoHistory(a, keywords, reqs) ==
    RatMin(RatAdd(RatAdd(RatMul(ScoreCapabilities(a, keywords), <<4, 10>>),
                         RatMul(ScoreAvailability(a), <<2, 10>>)),
                  RatMul(ScoreRequirements(a, reqs), <<1, 10>>)),
           <<1, 1>>)

\* _calculate_agent_score
CalculateAgentScore(a, keywords, reqs) ==
    RatMin(RatAdd(RatAdd(RatAdd(RatMul(ScoreCapabilities(a, keywords),
                                       <<4, 10>>),
                                RatMul(ScorePerformance(a), <<3, 10>>)),
                         RatMul(ScoreAvailability(a), <<2, 10>>)),
                  RatMul(ScoreRequirements(a, reqs), <<1, 10>>)),
           <<1, 1>>)

\* a filter that forgets exclude_agents
AvailableIgnoringExclusion(i) ==
    /\ registry[i].type \in SuitableAgentTypes(task_type)
    /\ registry[i].status \in {"idle", "active"}
    /\ registry[i].is_active

\* the query of _get_available_agents
Available(i) ==
    /\ registry[i].type \in SuitableAgentTypes(task_type)
    /\ registry[i].status \in {"idle", "active"}
    /\ registry[i].is_active
    /\ i \notin exclude_agents

\* _get_available_agents: the rows that pass the query, in queryset order
GetAvailableAgents == SelectSeq(SeqOf(AgentIds), Available)

\* the score select_best_agent(task_type, '', None, exclude_agents) gives
\* the agent of row i
RegistryScore(i) ==
    CalculateAgentScore(registry[i], NoKeywordMatches, NoRequirements)

\* scored_agents.sort(key=lambda x: x[1], reverse=True): a stable sort;
\* agents of equal score keep the order of the queryset
RECURSIVE SortByScore(_)
SortByScore(ids) ==
    IF ids = << >> THEN << >>
    ELSE LET score(i) == RegistryScore(ids[i])
             k == CHOOSE i \in 1..Len(ids) :
                     /\ \A j \in 1..Len(ids) : ~RatLess(score(i), score(j))
                     /\ \A j \in 1..(i - 1) : RatLess(score(j), score(i))
         IN <<ids[k]>> \o
            SortByScore(SubSeq(ids, 1, k - 1) \o SubSeq(ids, k + 1, Len(ids)))

\* the selector has not been called
SelectorIdle ==
    /\ registry = << >>
    /\ task_type = "none"
    /\ exclude_agents = {}
    /\ best_agent = NoAgent
    /\ selPc = "idle"

\* a call select_best_agent(task_type, '', None, exclude_agents) against the
\* Agent rows of the database
SelectorCalled ==
    /\ registry \in [AgentIds -> Agents]
    /\ task_type \in TaskTypes
    /\ exclude_agents \in SUBSET AgentIds
    /\ best_agent = NoAgent
    /\ selPc = "called"

\* select_best_agent: None without available agents, else the first agent of
\* the list sorted by score
SelectBestAgent ==
    /\ selPc = "called"
    /\ best_agent' = IF GetAvailableAgents = << >> THEN NoAgent
                     ELSE Head(SortByScore(GetAvailableAgents))
    /\ selPc' = "returned"
    /\ UNCHANGED <<registry, task_type, exclude_agents, othersS>>

SelectorNext == SelectBestAgent

(***************************************************************************)
(* The score of one agent, as select_best_agent computes it and as         *)
(* explain_selection reports it (agent_selector.py; the view               *)
(* select_best_agent of views.py calls one after the other).               *)
(***************************************************************************)
\* no agent is being scored
ExplainIdle ==
    /\ candidate = << >>
    /\ keyword_matches = 0
    /\ requirements = << >>
    /\ selection_score = << >>
    /\ total_score = << >>
    /\ explanations = << >>
    /\ expPc = "idle"

\* an agent, a task description and requirements are given
ExplainCalled ==
    /\ candidate \in {a \in ConfiguredAgents :
                         /\ a.is_active
                         /\ \E t \in TaskTypes :
                                a.type \in SuitableAgentTypes(t)}
    /\ keyword_matches \in 0..MaxTags
    /\ keyword_matches <= candidate.capabilities.tags
    /\ requirements \in RequirementSets
    /\ selection_score = << >>
    /\ total_score = << >>
    /\ explanations = << >>
    /\ expPc = "called"

\* select_best_agent, loop body: the agent is among the available ones and
\* is scored
ScoreCandidate ==
    /\ expPc = "called"
    /\ candidate.status \in {"idle", "active"}
    /\ selection_score' =
           Present(CalculateAgentScore(candidate, keyword_matches,
                                       requirements))
    /\ expPc' = "selected"
    /\ UNCHANGED <<candidate, keyword_matches, requirements, total_score,
                   explanations, othersE>>

\* explain_selection, 'total_score': the first query of the executions
ExplainTotal ==
    /\ expPc \in {"called", "selected", "explained"}
    /\ Len(explanations) < MaxExplanations
    /\ total_score' =
           Present(CalculateAgentScore(candidate, keyword_matches,
                                       requirements))
    /\ expPc' = "explaining"
    /\ UNCHANGED <<candidate, keyword_matches, requirements, selection_score,
                   explanations, othersE>>

\* explain_selection, 'scoring_breakdown': each score is computed again, the
\* performance score with a second query of the executions
ExplainBreakdown ==
    /\ expPc = "explaining"
    /\ explanations' =
           Append(explanations,
                  [total_score |-> total_score[1],
                   capabilities |->
                       ScoreCapabilities(candidate, keyword_matches),
                   performance |-> ScorePerformance(candidate),
                   availability |-> ScoreAvailability(candidate),
                   requirements |->
                       ScoreRequirements(candidate, requirements)])
    /\ total_score' = << >>
    /\ expPc' = "explained"
    /\ UNCHANGED <<candidate, keyword_matches, requirements, selection_score,
                   othersE>>

\* the clock moves on and the last TaskExecution rows of the agent leave the
\* window start_time >= timezone.now() - 30 days of get_agent_performance
ExecutionsLeaveWindow ==
    /\ expPc \in {"selected", "explaining", "explained"}
    /\ Len(explanations) < MaxExplanations
    /\ candidate.history.known
    /\ candidate' = [candidate EXCEPT !.history = NoHistory]
    /\ UNCHANGED <<keyword_matches, requirements, selection_score,
                   total_score, explanations, expPc, othersE>>

ExplainNext ==
    \/ ScoreCandidate
    \/ ExplainTotal
    \/ ExplainBreakdown
    \/ ExecutionsLeaveWindow

(***************************************************************************)
(* The registry of running executions of the orchestrator:                 *)
(* WorkflowOrchestrator.execute_workflow called by several tasks or        *)
(* threads, and get_workflow_status.                                       *)
(***************************************************************************)
Calls == 1..MaxCalls

\* keys of WorkflowTemplates.get_all_templates()
TemplateIds == {"bug_investigation", "code_review_process"}

\* workflow ids a caller may pass; the last one has no template
WorkflowIds == TemplateIds \cup {"no_such_workflow"}

\* a local name that has not been assigned
Unbound == "unbound"

\* no WorkflowExecution: what dict.get returns for a missing key
NoExecution == 0

\* int(datetime.now().timestamp()): the whole seconds of the clock
Timestamp(t) == t \div TicksPerSecond

\* f"{workflow_id}_{int(datetime.now().timestamp())}"
ExecutionId(workflow_id, t) == workflow_id \o "_" \o ToString(Timestamp(t))

\* self.active_workflows[execution_id] = execution
Register(reg, id, c) ==
    [i \in DOMAIN reg \cup {id} |-> IF i = id THEN c ELSE reg[i]]

\* a cleanup that leaves the entry in place
KeepRegistered(reg, id) == reg

\* if execution_id in self.active_workflows: del ...
Unregister(reg, id) == [i \in DOMAIN reg \ {id} |-> reg[i]]

\* the exception that leaves execute_workflow when its try block raised
\* body: the handler evaluates the local execution and the finally clause
\* the local execution_id, and either raises UnboundLocalError when the
\* name was not assigned before the body raised
LeavesWith(body, execution_bound, execution_id_bound) ==
    IF ~execution_id_bound THEN "UnboundLocalError"
    ELSE IF ~execution_bound THEN "UnboundLocalError"
    ELSE body

\* how _execute_workflow_steps can end: every step completed, a step
\* failed for good, no step was ready, or an exception escaped it
Outcomes == {"completed", "failed", "blocked", "exception"}

\* the orchestrator before any execute_workflow call
RegistryIdle ==
    /\ now = 0
    /\ active_workflows = << >>
    /\ callPc = << >>
    /\ execution_id = << >>
    /\ callRaised = << >>
    /\ callOutcome = << >>

\* a new orchestrator and its callers before their calls
RegistryStart ==
    /\ now = 0
    /\ active_workflows = << >>
    /\ callPc = [c \in Calls |-> "idle"]
    /\ execution_id = [c \in Calls |-> Unbound]
    /\ callRaised = [c \in Calls |-> "none"]
    /\ callOutcome = [c \in Calls |-> "none"]

\* time passes
Tick ==
    /\ now < MaxClock
    /\ now' = now + 1
    /\ UNCHANGED <<active_workflows, callPc, execution_id, callRaised,
                   callOutcome, othersA>>

\* execute_workflow up to its first await: get_template, and either the
\* ValueError of a missing template with the handler and the finally clause
\* run on it, or the execution is created and stored in active_workflows
ExecuteWorkflowCall(c, workflow_id) ==
    /\ callPc[c] = "idle"
    /\ IF workflow_id \notin TemplateIds
       THEN /\ callRaised' = [callRaised EXCEPT ![c] =
                                 LeavesWith("ValueError", FALSE, FALSE)]
            /\ callPc' = [callPc EXCEPT ![c] = "raised"]
            /\ UNCHANGED <<active_workflows, execution_id>>
       ELSE /\ execution_id' = [execution_id EXCEPT ![c] =
                                   ExecutionId(workflow_id, now)]
            /\ active_workflows' =
                  Register(active_workflows, ExecutionId(workflow_id, now), c)
            /\ callPc' = [callPc EXCEPT ![c] = "running"]
            /\ UNCHANGED callRaised
    /\ UNCHANGED <<now, callOutcome, othersA>>

\* execute_workflow after _execute_workflow_steps: the result is compiled
\* and returned, or the exception is raised again by the handler; the
\* finally clause deletes the entry of execution_id when there is one
ExecuteWorkflowEnd(c, outcome) ==
    /\ callPc[c] = "running"
    /\ callOutcome' = [callOutcome EXCEPT ![c] = outcome]
    /\ IF outcome = "exception"
       THEN /\ callRaised' = [callRaised EXCEPT ![c] =
                                 LeavesWith("Exception", TRUE, TRUE)]
            /\ callPc' = [callPc EXCEPT ![c] = "raised"]
       ELSE /\ callPc' = [callPc EXCEPT ![c] = "returned"]
            /\ UNCHANGED callRaised
    /\ active_workflows' =
          IF execution_id[c] \in DOMAIN active_workflows
          THEN Unregister(active_workflows, execution_id[c])
          ELSE active_workflows
    /\ UNCHANGED <<now, execution_id, othersA>>

\* get_workflow_status: the execution stored under the id, or None
GetWorkflowStatus(id) ==
    IF id \in DOMAIN active_workflows THEN active_workflows[id]
    ELSE NoExecution

RegistryNext ==
    \/ Tick
    \/ \E c \in Calls, w \in WorkflowIds : ExecuteWorkflowCall(c, w)
    \/ \E c \in Calls, o \in Outcomes : ExecuteWorkflowEnd(c, o)

(***************************************************************************)
(* The execution history of workflow_dag.WorkflowEngine:                   *)
(* _store_execution_history, called by execute_workflow with each result.  *)
(***************************************************************************)
\* dag.workflow_id of the dags that are executed
DagWorkflowIds == {"wf_a", "wf_b"}

\* a trim that keeps the first HistoryLimit results
KeepOldest(history) ==
    IF Len(history) > HistoryLimit THEN SubSeq(history, 1, HistoryLimit)
    ELSE history

\* if len(history) > 100: history = history[-100:]
KeepLatest(history) ==
    IF Len(history) > HistoryLimit
    THEN SubSeq(history, Len(history) - HistoryLimit + 1, Len(history))
    ELSE history

\* self.execution_history.get(workflow_id), [] for a missing key
HistoryOf(workflow_id) ==
    IF workflow_id \in DOMAIN execution_history
    THEN execution_history[workflow_id]
    ELSE << >>

\* the engine before any execution
HistoryIdle ==
    /\ execution_history = << >>
    /\ stored = << >>

\* a new engine: self.execution_history = {}
HistoryStart ==
    /\ execution_history = << >>
    /\ stored = [w \in DagWorkflowIds |-> 0]

\* _store_execution_history(workflow_id, result): the list of the workflow
\* id is created if it is missing, the result is appended and the list is
\* cut to its last 100 entries
StoreExecutionHistory(workflow_id) ==
    /\ stored[workflow_id] < MaxExecutions
    /\ stored' = [stored EXCEPT ![workflow_id] = @ + 1]
    /\ execution_history' =
          [w \in DOMAIN execution_history \cup {workflow_id} |->
              IF w = workflow_id
              THEN KeepLatest(Append(HistoryOf(workflow_id),
                                     stored[workflow_id] + 1))
              ELSE execution_history[w]]
    /\ UNCHANGED othersH

HistoryNext ==
    \E w \in DagWorkflowIds : StoreExecutionHistory(w)

(***************************************************************************)
(* Specifications.  Each one runs one component and holds the others still. *)
(***************************************************************************)
\* the orchestrator before any execution was created
OrchIdle ==
    /\ stepDeps = [s \in StepIds |-> {}]
    /\ error_handling = [retry_failed_steps |-> TRUE, max_retries |-> 0,
                         fallback_strategy |-> "continue_other_steps"]
    /\ stepStatus = [s \in StepIds |-> "pending"]
    /\ retry_count = [s \in StepIds |-> 0]
    /\ completed_steps = {}
    /\ failed_steps = {}
    /\ ready_steps = << >>
    /\ taskIdx = 0
    /\ pc = "idle"
    /\ stepPc = [s \in StepIds |-> "idle"]
    /\ execStatus = "initializing"
    /\ execError = "none"
    /\ result = NoResult
    /\ invocations = [s \in StepIds |-> 0]
    /\ callback = FALSE
    /\ progress = "none"
    /\ slept = [s \in StepIds |-> << >>]
    /\ step_error = [s \in StepIds |-> NoError]

\* the components added after the three schedulers, before their first call
ServicesIdle ==
    /\ TrackerIdle
    /\ EngineIdle
    /\ SelectorIdle
    /\ ExplainIdle
    /\ RegistryIdle
    /\ HistoryIdle

\* a graph under construction, no execution started
GraphInit ==
    /\ EmptyGraph
    /\ OrchIdle
    /\ DagIdle
    /\ ServicesIdle

SpecGraph ==
    GraphInit /\ [][GraphNext]_vars

\* one execution of a template, created by _create_workflow_execution
OrchInit ==
    /\ CreateWorkflowExecution
    /\ EmptyGraph
    /\ DagIdle
    /\ ServicesIdle

SpecOrch ==
    OrchInit /\ [][OrchNext]_vars

\* one execution of a template with a progress callback
OrchCallbackInit ==
    /\ CreateWorkflowExecutionWithCallback
    /\ EmptyGraph
    /\ DagIdle
    /\ ServicesIdle

SpecOrchCallback ==
    OrchCallbackInit /\ [][OrchCallbackNext]_vars

\* one execution of a template that allows MaxBackoffs retries
OrchRetriesInit ==
    /\ CreateWorkflowExecutionWithRetries
    /\ EmptyGraph
    /\ DagIdle
    /\ ServicesIdle

SpecOrchRetries ==
    OrchRetriesInit /\ [][OrchNext]_vars

\* the event loop runs the scheduler coroutine whenever it can continue and
\* every backoff sleep ends, but a step body need not return or raise
HangingBodySpecOrch ==
    SpecOrch /\ WF_vars(\/ Begin
                        \/ LoopHead
                        \/ \E s \in StepIds : StartStep(s)
                        \/ \E s \in StepIds : BackoffDone(s)
                        \/ Finalize)

\* the event loop runs the scheduler coroutine whenever it can continue,
\* every step body returns or raises and every backoff sleep ends
FairSpecOrch == SpecOrch /\ WF_vars(OrchNext)

\* one execute_workflow(dag) call of the engine of workflow_dag.py
DagInit ==
    /\ DagEngineStart
    /\ OrchIdle
    /\ ServicesIdle

SpecDag ==
    DagInit /\ [][DagNext]_vars

\* execute_workflow(dag) calls with the same dag, one after the other
SpecDagRerun ==
    DagInit /\ [][DagRerunNext]_vars

\* every task of a wave runs on, and the engine continues after gather
FairSpecDag ==
    SpecDag /\ WF_vars(DagNext)

\* recordings for one agent and task type, made by concurrent callers
TrackerInit ==
    /\ TrackerIdle
    /\ EmptyGraph
    /\ OrchIdle
    /\ DagIdle
    /\ EngineIdle
    /\ SelectorIdle
    /\ ExplainIdle
    /\ RegistryIdle
    /\ HistoryIdle

SpecTracker ==
    TrackerInit /\ [][TrackerNext]_vars

\* the same recordings, each one made after the one before it has returned
TrackerSeqInit ==
    /\ TrackerIdle
    /\ EmptyGraph
    /\ OrchIdle
    /\ DagIdle
    /\ EngineIdle
    /\ SelectorIdle
    /\ ExplainIdle
    /\ RegistryIdle
    /\ HistoryIdle

SpecTrackerSeq ==
    TrackerSeqInit /\ [][TrackerSeqNext]_vars

\* one execute_workflow call of the engine of workflow_engine.py
EngineInit ==
    /\ ExecuteWorkflowStart
    /\ EmptyGraph
    /\ OrchIdle
    /\ DagIdle
    /\ TrackerIdle
    /\ SelectorIdle
    /\ ExplainIdle
    /\ RegistryIdle
    /\ HistoryIdle

SpecEngine ==
    EngineInit /\ [][EngineNext]_vars

\* one select_best_agent call
SelectorInit ==
    /\ SelectorCalled
    /\ EmptyGraph
    /\ OrchIdle
    /\ DagIdle
    /\ TrackerIdle
    /\ EngineIdle
    /\ ExplainIdle
    /\ RegistryIdle
    /\ HistoryIdle

SpecSelector ==
    SelectorInit /\ [][SelectorNext]_vars

\* one agent is scored for a selection and its score is explained
ExplainInit ==
    /\ ExplainCalled
    /\ EmptyGraph
    /\ OrchIdle
    /\ DagIdle
    /\ TrackerIdle
    /\ EngineIdle
    /\ SelectorIdle
    /\ RegistryIdle
    /\ HistoryIdle

SpecExplain ==
    ExplainInit /\ [][ExplainNext]_vars

\* execute_workflow calls of several callers on one orchestrator
RegistryInit ==
    /\ RegistryStart
    /\ EmptyGraph
    /\ OrchIdle
    /\ DagIdle
    /\ TrackerIdle
    /\ EngineIdle
    /\ SelectorIdle
    /\ ExplainIdle
    /\ HistoryIdle

SpecRegistry ==
    RegistryInit /\ [][RegistryNext]_vars

\* executions of an engine that store their results one after the other
HistoryInit ==
    /\ HistoryStart
    /\ EmptyGraph
    /\ OrchIdle
    /\ DagIdle
    /\ TrackerIdle
    /\ EngineIdle
    /\ SelectorIdle
    /\ ExplainIdle
    /\ RegistryIdle

SpecHistory ==
    HistoryInit /\ [][HistoryNext]_vars


(***************************************************************************)
(* Properties of the graph model.                                          *)
(***************************************************************************)
\* successors of a set of nodes in a relation given as id -> list of ids
Step1(rel, S) == UNION {Range(EdgesGet(rel, n)) : n \in S}

\* every id reachable from the ids in S by one or more steps of rel
RECURSIVE Closure(_, _)
Closure(rel, S) ==
    LET T == S \cup Step1(rel, S)
    IN IF T = S THEN S ELSE Closure(rel, T)

ReachPlus(rel, n) == Closure(rel, Step1(rel, {n}))

\* y is x or is reachable from x
Reaches(rel, x, y) == y = x \/ y \in ReachPlus(rel, x)

\* C2: an add_edge(from, to) for which to already reaches from along the
\* edges (from = to included) raises the cycle error and leaves the node
\* set, the edges map and every dependencies list as they were.
C2_CycleEdgeRejectedUnchanged ==
    [][\A f \in nodes, t \in nodes :
          (/\ Reaches(edges, t, f)
           /\ call'.op = "add_edge" /\ call'.a = f /\ call'.b = t)
          => (/\ call'.raised = "cycle"
              /\ nodes' = nodes
              /\ edges' = edges
              /\ dependencies' = dependencies)]_vars

\* an add_edge was just rejected for a cycle that runs through at least one
\* intermediate node
C2_Witness ==
    /\ call.op = "add_edge"
    /\ call.raised = "cycle"
    /\ call.a # call.b
    /\ call.a \notin Range(edges[call.b])
    /\ call.a \in ReachPlus(edges, call.b)

\* C3: after any sequence of add_node and add_edge calls no node reaches
\* itself along the dependencies lists.
C3_DependenciesAcyclic ==
    \A n \in nodes : n \notin ReachPlus(dependencies, n)

(***************************************************************************)
(* Properties of the orchestrator model.                                   *)
(***************************************************************************)
\* every id reachable from the ids in S along dependencies lists
RECURSIVE DepClosure(_)
DepClosure(S) ==
    LET T == S \cup UNION {stepDeps[x] : x \in S \cap StepIds}
    IN IF T = S THEN S ELSE DepClosure(T)

\* the ids step s depends on, directly or through other steps
TransDeps(s) == DepClosure(stepDeps[s])

\* every dependency of s names a step whose status is COMPLETED
AllDepsSucceeded(s) ==
    \A d \in stepDeps[s] : d \in StepIds /\ stepStatus[d] = "completed"

\* s has started at some time in this execution
HasStarted(s) == stepStatus[s] # "pending" \/ invocations[s] > 0

\* the coroutine of u is inside its body or in a backoff sleep
Active(u) == stepPc[u] \in {"body", "sleep"}

\* C1: a step is set to RUNNING only after every step listed in its
\* dependencies has finished successfully.
C1_RunsOnlyAfterDependencies ==
    \A s \in StepIds : HasStarted(s) => AllDepsSucceeded(s)

\* a step with two dependencies is running
C1_Witness ==
    \E s \in StepIds :
        /\ stepStatus[s] = "running"
        /\ Cardinality(stepDeps[s]) >= 2

\* C4: with retry limit k the body of a step is invoked at most k+1 times,
\* retry_count never exceeds k, and the step is FAILED only after the
\* (k+1)-th attempt has failed.
C4_BoundedAttempts ==
    LET k == error_handling.max_retries
    IN \A s \in StepIds :
          /\ invocations[s] <= k + 1
          /\ retry_count[s] <= k
          /\ stepStatus[s] = "failed" =>
                 (invocations[s] = k + 1 /\ retry_count[s] = k)

\* a step has failed for good after at least one retry
C4_Witness ==
    \E s \in StepIds :
        /\ stepStatus[s] = "failed"
        /\ error_handling.max_retries >= 1
        /\ invocations[s] = error_handling.max_retries + 1

\* C5: a result that reports status completed reports every step completed
\* and no step failed.
C5_CompletedMeansAllSucceeded ==
    (pc = "done" /\ result.status = "completed")
        => (/\ result.steps_completed = result.total_steps
            /\ result.steps_failed = 0)

\* s depends, directly or transitively, on a step that failed for good
HasFailedAncestor(s) ==
    \E f \in TransDeps(s) \cap StepIds : stepStatus[f] = "failed"

ReadyStepsWereRun ==
    \A s \in StepIds : AllDepsSucceeded(s) => invocations[s] > 0

\* C7: unless the fallback strategy is stop_on_first_failure, at the end of
\* the execution every step whose own dependencies have succeeded has been
\* executed, whatever else failed.
C7_UnrelatedRunUnlessStopStrategy ==
    (pc = "done" /\ error_handling.fallback_strategy # "stop_on_first_failure")
        => ReadyStepsWereRun

\* the scheduler is at the while condition, steps remain and none is ready
Stuck ==
    /\ pc = "loop"
    /\ (StepIds \ completed_steps) \ failed_steps # {}
    /\ GetReadySteps(completed_steps, failed_steps) = << >>

\* C8: every execution reaches its terminal status; a scheduler that finds
\* steps remaining but none ready leaves the loop with the
\* blocked-by-dependencies error, which stays set, and a run that ends with
\* that error ends with status failed.
C8_TerminatesAndReportsBlocked ==
    /\ <>(pc = "done")
    /\ [][/\ Stuck => (pc' = "finalize" /\ execError' = "blocked")
          /\ execError = "blocked" => execError' = "blocked"]_vars
    /\ []((pc = "done" /\ execError = "blocked")
             => (/\ execStatus = "failed"
                 /\ result.status = "failed"
                 /\ result.error = "blocked"))

\* a run ended blocked although no step failed: an unknown dependency id or
\* a cyclic definition
C8_Witness ==
    /\ pc = "done"
    /\ execError = "blocked"
    /\ failed_steps = {}
    /\ \E s \in StepIds : s \in TransDeps(s)

\* the bodies of b and c have both started and neither has finished
BothBodiesInProgress(b, c) ==
    b # c /\ stepPc[b] = "body" /\ stepPc[c] = "body"

\* C9: when steps b and c both depend only on a and a has succeeded, b and
\* c can run concurrently: while the body of b is in progress c, not yet
\* started, can start, so that both bodies are in progress at once.
C9_RoundStepsCanOverlap ==
    \A a \in StepIds, b \in StepIds, c \in StepIds :
        (/\ b # c
         /\ stepDeps[b] = {a} /\ stepDeps[c] = {a}
         /\ stepStatus[a] = "completed"
         /\ stepPc[b] = "body"
         /\ stepStatus[c] = "pending")
        => ENABLED (StartStep(c) /\ BothBodiesInProgress(b, c)')

\* what the orchestrator does instead: the coroutines of a round are awaited
\* one after the other, so at most one step is inside its body or its
\* backoff sleep at any time
OneStepAtATime ==
    \A b \in StepIds, c \in StepIds :
        (Active(b) /\ Active(c)) => b = c

\* s became ready while a round it is not part of is in progress, and a
\* step u it does not depend on is still running or backing off
ReadyBehindUnrelated(s, u) ==
    /\ pc = "await"
    /\ s \notin Range(ready_steps)
    /\ stepPc[s] = "idle"
    /\ stepDeps[s] # {}
    /\ AllDepsSucceeded(s)
    /\ u # s
    /\ u \notin TransDeps(s)
    /\ Active(u)

\* C10 as claimed: a step whose dependencies have all succeeded can be
\* dispatched while an unrelated step is still running or backing off.
C10_ReadyStepNotDelayed ==
    \A s \in StepIds, u \in StepIds :
        ReadyBehindUnrelated(s, u) => ENABLED StartStep(s)

\* C10 as amended: a step is dispatched only as a member of the current
\* round, and the next round is computed only when every step of the
\* current round has finished (completed or failed for good).
C10_RoundsDrainBeforeDispatch ==
    [][/\ \A s \in StepIds :
             (stepStatus[s] = "pending" /\ stepStatus'[s] = "running")
                 => s \in Range(ready_steps)
       /\ ready_steps' # ready_steps
             => Range(ready_steps) \subseteq completed_steps \cup failed_steps
      ]_vars

\* a ready step waits behind an unrelated step that is backing off
C10_Witness ==
    \E s \in StepIds, u \in StepIds :
        ReadyBehindUnrelated(s, u) /\ stepPc[u] = "sleep"

(***************************************************************************)
(* Properties of the engine of workflow_dag.py, the second scheduler the   *)
(* repository has.  They restate the scheduling properties above for the   *)
(* wave loop of execute_workflow(dag).                                     *)
(***************************************************************************)
\* every id reachable from the ids in S along the dependencies lists
RECURSIVE NodeDepClosure(_)
NodeDepClosure(S) ==
    LET T == S \cup UNION {Range(dependencies[x]) : x \in S \cap nodes}
    IN IF T = S THEN S ELSE NodeDepClosure(T)

NodeTransDeps(n) == NodeDepClosure(Range(dependencies[n]))

\* the body of every dependency of n has returned True
NodeDepsSucceeded(n) ==
    \A dep \in Range(dependencies[n]) : gathered[dep] = "true"

NodeActive(u) == nodePc[u] \in {"body", "sleep"}

\* a node is set to RUNNING only after every node in its dependencies list
\* has status SUCCESS
Dag_RunsOnlyAfterDependencies ==
    \A n \in nodes :
        (node_status[n] # "pending" \/ node_invocations[n] > 0)
            => \A dep \in Range(dependencies[n]) : node_status[dep] = "success"

\* with max_retries = k the body of a node is invoked at most k+1 times,
\* retry_count stays within k, and the node is FAILED only after attempt k+1
Dag_BoundedAttempts ==
    \A n \in nodes :
        /\ node_invocations[n] <= node_max_retries + 1
        /\ node_retry_count[n] <= node_max_retries
        /\ node_status[n] = "failed" =>
               node_invocations[n] = node_max_retries + 1

\* status completed is reported only when every node has status SUCCESS
Dag_CompletedMeansAllSucceeded ==
    dagResult = "completed" => \A n \in nodes : node_status[n] = "success"

\* a node below a failed node never runs and keeps status PENDING
Dag_DependentsStayPending ==
    \A n \in nodes :
        (\E f \in NodeTransDeps(n) : node_status[f] = "failed")
            => (node_status[n] = "pending" /\ node_invocations[n] = 0)

\* two nodes that depend only on a, which has succeeded, can be in their
\* bodies at once: asyncio.gather runs the tasks of a wave concurrently
Dag_WaveNodesCanOverlap ==
    \A a \in nodes, b \in nodes, c \in nodes :
        (/\ b # c
         /\ dependencies[b] = <<a>> /\ dependencies[c] = <<a>>
         /\ node_status[a] = "success"
         /\ nodePc[b] = "body"
         /\ node_status[c] = "pending")
        => ENABLED (/\ ExecuteNode(c)
                    /\ nodePc'[b] = "body" /\ nodePc'[c] = "body")

\* a node is dispatched only as a member of the current wave, and the next
\* wave is computed only when every task of the current wave has finished
Dag_WavesDrainBeforeDispatch ==
    [][/\ \A n \in nodes :
             (node_status[n] = "pending" /\ node_status'[n] = "running")
                 => n \in Range(executable_nodes)
       /\ (dpc = "gather" /\ executable_nodes' # executable_nodes)
             => \A n \in Range(executable_nodes) : gathered[n] # "none"
      ]_vars

\* n became ready while a wave it is not part of is in progress, and a node
\* u it does not depend on is still running or backing off
NodeReadyBehindUnrelated(n, u) ==
    /\ dpc = "gather"
    /\ n \notin Range(executable_nodes)
    /\ node_status[n] = "pending"
    /\ dependencies[n] # << >>
    /\ NodeDepsSucceeded(n)
    /\ u # n
    /\ u \notin NodeTransDeps(n)
    /\ NodeActive(u)

\* the wave loop does not dispatch a ready node past an unrelated running
\* node either: this formula does not hold of the engine
Dag_ReadyNodeNotDelayed ==
    \A n \in nodes, u \in nodes :
        NodeReadyBehindUnrelated(n, u) => ENABLED ExecuteNode(n)

\* every execute_workflow(dag) call returns
Dag_Terminates == <>(dpc = "done")

(***************************************************************************)
(* PerformanceTracker properties.                                          *)
(***************************************************************************)
AllRecordingsFinished == \A p \in Recordings : recPc[p] = "done"

\* C11: whatever the interleaving of concurrent recordings for one executor
\* and capability, once all k recordings have finished the stored
\* total_executions is k and the stored successful_executions is the number
\* of successful recordings: no update is lost.
C11_NoLostUpdate ==
    AllRecordingsFinished =>
        /\ task_metrics.total_executions = recorded.n
        /\ task_metrics.successful_executions = recorded.successes

\* C12: after n recordings made one after the other, the stored
\* avg_execution_time is the sum of the n durations divided by n.
C12_AverageIsSumOverN ==
    (recorded.n > 0 /\ \A p \in Recordings : recPc[p] # "loaded") =>
        /\ task_metrics.total_executions = recorded.n
        /\ task_metrics.avg_execution_time =
               RatOver(recorded.time_sum, recorded.n)

\* three recordings with different durations have been averaged
C12_Witness ==
    /\ AllRecordingsFinished
    /\ recorded.n = MaxRecordings
    /\ recorded.time_sum[1] > recorded.n
    /\ task_metrics.avg_execution_time[2] > 1

\* C13: when accuracy is supplied on only some recordings, the stored
\* avg_accuracy is the arithmetic mean of the supplied accuracy values.
C13_AccuracyIsMeanOfSupplied ==
    (recorded.acc_n > 0 /\ \A p \in Recordings : recPc[p] # "loaded") =>
        task_metrics.avg_accuracy = RatOver(recorded.acc_sum, recorded.acc_n)

(***************************************************************************)
(* Properties of the sequential engine.                                    *)
(***************************************************************************)
\* C14: once cancel_workflow has been accepted for a running execution, the
\* status of the execution is cancelled; it is never afterwards set or
\* reported as completed or failed.
C14_CancelledStaysCancelled ==
    cancelAccepted => ctxStatus = "cancelled"

\* C15: after cancel_workflow has been accepted, no step that was still
\* pending is ever started; every such step ends skipped.
C15_PendingStepsSkippedAfterCancel ==
    \A s \in pendingAtCancel :
        /\ wfStepStatus[s] \in {"pending", "skipped"}
        /\ wfPc = "done" => wfStepStatus[s] = "skipped"

(***************************************************************************)
(* Properties of the execution context.                                    *)
(***************************************************************************)
\* C16: the execution context is append-only: once a key is present its
\* value is never changed by a later step; a step whose output would write
\* a key that is already present is rejected instead of overwriting it.
C16_ContextAppendOnly ==
    [][\A k \in OutputKeys :
          dag_context[k] # NoValue => dag_context'[k] = dag_context[k]]_vars

\* C17: when no registered executor has the capability a step requires,
\* the step goes to FAILED without ever having the status RUNNING and
\* without its body being invoked.
C17_NoExecutorFailsWithoutRunning ==
    [][\A s \in StepIds :
          (s \in noAgentSteps' /\ s \notin noAgentSteps) =>
             /\ wfStepStatus[s] # "running"
             /\ wfStepStatus'[s] = "failed"
             /\ s \notin bodyInvoked']_vars

(***************************************************************************)
(* Properties of the agent selector.                                       *)
(***************************************************************************)
\* a candidate the selector may return: not excluded, of a type that handles
\* the task type, active, and idle or active by status
Eligible(i) ==
    /\ i \notin exclude_agents
    /\ registry[i].type \in SuitableAgentTypes(task_type)
    /\ registry[i].is_active
    /\ registry[i].status \in {"idle", "active"}

C19_ReturnsHighestScore ==
    (selPc = "returned" /\ best_agent # NoAgent) =>
        /\ Eligible(best_agent)
        /\ \A i \in AgentIds :
              Eligible(i) =>
                 ~RatLess(RegistryScore(best_agent),
                          RegistryScore(i))
        /\ \A i, j \in AgentIds :
              (/\ Eligible(i) /\ Eligible(j)
               /\ \A k \in AgentIds : Eligible(k) => k \in {i, j}
               /\ registry[i].status = "idle" /\ registry[j].status = "idle"
               /\ registry[i].type = registry[j].type
               /\ registry[i].capabilities = registry[j].capabilities
               /\ RatLess(ScorePerformance(registry[j]),
                          ScorePerformance(registry[i])))
              => best_agent = i

\* the second of two idle agents that differ only in their history has the
\* better history and was returned
C19_Witness ==
    /\ selPc = "returned"
    /\ best_agent = MaxAgents
    /\ \A i \in AgentIds : Eligible(i) /\ registry[i].status = "idle"
    /\ \A i \in AgentIds :
          /\ registry[i].capabilities = registry[best_agent].capabilities
          /\ i # best_agent =>
                RatLess(ScorePerformance(registry[i]),
                        ScorePerformance(registry[best_agent]))

\* C20: when two eligible candidates have equal total score, the one with
\* the larger raw capability-tag overlap count is returned, whatever the
\* order in which the candidates are enumerated.
C20_TieBrokenByOverlap ==
    (selPc = "returned" /\ best_agent # NoAgent) =>
        \A i \in AgentIds :
            (/\ Eligible(i)
             /\ RegistryScore(i) =
                   RegistryScore(best_agent))
            => registry[i].capabilities.matching <=
                  registry[best_agent].capabilities.matching

(***************************************************************************)
(* Properties of the engines that involve the tracker and the final status. *)
(***************************************************************************)
\* C23: every step that reaches terminal SUCCESS or FAILED causes exactly
\* one outcome record in the performance tracker before the execution ends.
C23_EveryOutcomeRecorded ==
    wfPc = "done" =>
        recorded.n =
            Cardinality({s \in StepIds :
                            wfStepStatus[s] \in {"completed", "failed"}})

\* C24: under fallback_strategy partial_results an execution in which at
\* least one step failed permanently and at least one other step succeeded
\* ends with status partial, not completed and not failed.
C24_PartialResultsStatus ==
    (/\ pc = "done"
     /\ error_handling.fallback_strategy = "partial_results"
     /\ \E s \in StepIds : stepStatus[s] = "failed"
     /\ \E s \in StepIds : stepStatus[s] = "completed")
        => (execStatus = "partial" /\ result.status = "partial")


(***************************************************************************)
(* Properties of the score of one agent.                                   *)
(***************************************************************************)
\* the rational r lies in [0, 1]
InUnitInterval(r) == ~RatLess(r, <<0, 1>>) /\ ~RatLess(<<1, 1>>, r)

\* C21: for every executor, capability, description and requirement set the
\* total score the selector computes lies in [0, 1].
C21_TotalScoreInUnitInterval ==
    /\ selection_score # << >> => InUnitInterval(selection_score[1])
    /\ total_score # << >> => InUnitInterval(total_score[1])
    /\ \A i \in 1..Len(explanations) :
           InUnitInterval(explanations[i].total_score)

\* an agent without capabilities and out of service, whose executions all
\* failed after more than 10 seconds, is explained against required
\* features it lacks entirely: every score is at its lower limit
C21_Witness ==
    /\ Len(explanations) > 0
    /\ candidate.history = FailingHistory
    /\ candidate.status = "offline"
    /\ requirements.required_features = Present(<<"f1", "f2">>)
    /\ candidate.configuration.features = {}
    /\ explanations[Len(explanations)].total_score = <<0, 1>>

\* C22: explain_selection is deterministic in its arguments: two calls with
\* the same executor, capability, description and requirements return the
\* same total score and breakdown, and that total is the score
\* select_best_agent used.
C22_ExplainDeterministic ==
    /\ \A i, j \in 1..Len(explanations) : explanations[i] = explanations[j]
    /\ \A i \in 1..Len(explanations) :
           selection_score # << >> =>
               explanations[i].total_score = selection_score[1]

(***************************************************************************)
(* Properties of the orchestrator's callback, results, backoff and         *)
(* timeouts.                                                               *)
(***************************************************************************)
\* the call of the callback that is made in this step raises
CallbackRaises == pc = "progress" /\ progress' = "raised"

\* C25: an exception raised by the progress callback never changes any
\* step's status, the context or the final status, and never aborts the
\* execution: the scheduler goes on with the while loop.
C25_CallbackErrorSwallowed ==
    [][CallbackRaises =>
          /\ UNCHANGED <<stepStatus, retry_count, completed_steps,
                         failed_steps, execStatus, execError, result>>
          /\ pc' = "loop"]_vars

\* the callback raised and the execution ended completed
C25_Witness ==
    /\ progress = "raised"
    /\ pc = "done"
    /\ result.status = "completed"
    /\ \A s \in StepIds : stepStatus[s] = "completed"

\* C28: the delay before the n-th retry of a step is 2^n seconds, so the
\* delays of consecutive retries strictly increase.
C28_BackoffDoubles ==
    \A s \in StepIds :
        /\ \A n \in 1..Len(slept[s]) : slept[s][n] = 2 ^ n
        /\ \A n \in 1..(Len(slept[s]) - 1) : slept[s][n] < slept[s][n + 1]

\* a step that was retried three times: it slept 2, 4 and 8 seconds
C28_Witness ==
    \E s \in StepIds : slept[s] = <<2, 4, 8>> /\ invocations[s] = 4

\* C29: a step body that does not return within the step's timeout is ended
\* as a failed attempt and goes through the retry path, so a body that
\* never returns cannot keep the execution running forever.
C29_HangingBodyEnds ==
    \A s \in StepIds : (stepPc[s] = "body") ~> (stepPc[s] # "body")

\* C26: every run of an existing workflow definition hands the caller a
\* result with a status and one per-step detail entry for every step, also
\* when steps failed, never started or the run was blocked.
C26_ResultHasStatusAndStepDetails ==
    wfPc = "done" =>
        /\ "status" \in DOMAIN ExecuteWorkflowResult
        /\ "step_details" \in DOMAIN ExecuteWorkflowResult
        /\ DOMAIN ExecuteWorkflowResult.step_details = StepIds

\* the result of the orchestrator has a status and a detail entry for
\* every step, whatever became of the step
Orch_ResultHasStatusAndStepDetails ==
    pc = "done" =>
        /\ result.status \in {"completed", "failed"}
        /\ DOMAIN result.step_details = StepIds
        /\ \A s \in StepIds :
               result.step_details[s].status = stepStatus[s]

(***************************************************************************)
(* Properties of a dag that is executed again, and of the status           *)
(* lifecycle.                                                              *)
(***************************************************************************)
\* C27: executing a workflow leaves the built graph unchanged, so running
\* the same graph a second time dispatches every step again as in the first
\* run: a node that ran in the first run and whose dependencies all
\* succeeded in the second run has run in the second run.
C27_SecondRunDispatchesAgain ==
    (dpc = "done" /\ Len(previous_runs) = 1) =>
        \A n \in NodeIds :
            (/\ previous_runs[1].invocations[n] > 0
             /\ \A dep \in Range(dependencies[n]) : dep \in completed_nodes)
                => node_invocations[n] > 0

\* the statuses of the orchestrator's steps change along the lifecycle
Orch_StatusLifecycle ==
    [][\A s \in StepIds :
          stepStatus'[s] # stepStatus[s] =>
              /\ stepStatus'[s] = "running" =>
                     stepStatus[s] \in {"pending", "ready", "retrying"}
              /\ stepStatus'[s] = "retrying" =>
                     stepStatus[s] = "running" /\ CanRetry(s)
              /\ stepStatus[s] \notin {"completed", "skipped"}]_vars

\* C30: step statuses change only along the lifecycle: RUNNING is entered
\* only from PENDING/READY or RETRYING, RETRYING only after a failed attempt
\* with retries left, and a step that has reached SUCCESS/COMPLETED or
\* SKIPPED never changes status again.
C30_StatusLifecycle ==
    [][\A n \in NodeIds :
          node_status'[n] # node_status[n] =>
              /\ node_status'[n] = "running" =>
                     node_status[n] \in {"pending", "ready", "retrying"}
              /\ node_status'[n] = "retrying" =>
                     node_status[n] = "running" /\ NodeCanRetry(n)
              /\ node_status[n] \notin {"success", "skipped"}]_vars

\* within one execute_workflow call the statuses of the nodes of a dag
\* change along the lifecycle
Dag_StatusLifecycleInOneRun ==
    [][Len(previous_runs') = 0 =>
          \A n \in NodeIds :
              node_status'[n] # node_status[n] =>
                  /\ node_status'[n] = "running" =>
                         node_status[n] \in {"pending", "ready", "retrying"}
                  /\ node_status'[n] = "retrying" =>
                         node_status[n] = "running" /\ NodeCanRetry(n)
                  /\ node_status[n] \notin {"success", "skipped"}]_vars

(***************************************************************************)
(* Properties of an orchestrator execution that stops on the first         *)
(* failure.                                                                *)
(***************************************************************************)
\* retry_failed_steps is false and a step has failed for good
StoppedByFailure ==
    ~error_handling.retry_failed_steps /\ \E s \in StepIds : stepStatus[s] = "failed"

\* C31: with retry_failed_steps = false, as soon as one step fails
\* permanently no further step body is started, also not of the steps that
\* were ready in the same round; execution.error names the failed step and
\* the final status is failed.
C31_StopsOnFirstFailure ==
    /\ [][StoppedByFailure => invocations' = invocations]_vars
    /\ [](StoppedByFailure =>
             /\ \E s \in StepIds :
                    /\ failed_steps = {s}
                    /\ stepStatus[s] = "failed"
                    /\ execError = StepFailedError(s)
             /\ \A s \in StepIds : stepPc[s] \notin {"body", "sleep"}
             /\ pc \in {"finalize", "done"}
             /\ pc = "done" =>
                    (execStatus = "failed" /\ result.status = "failed"))

\* the first step of a round failed for good, and a step that was ready in
\* the same round has not been started when the execution has ended failed
C31_Witness ==
    /\ pc = "done"
    /\ StoppedByFailure
    /\ execStatus = "failed"
    /\ \E s, u \in Range(ready_steps) :
           /\ s # u
           /\ stepStatus[s] = "failed"
           /\ stepStatus[u] = "pending"
           /\ invocations[u] = 0

(***************************************************************************)
(* Properties of the ordering the sequential engine computes.              *)
(***************************************************************************)
\* the steps reached from S within k dependency arcs
RECURSIVE DependencyClosure(_, _, _)
DependencyClosure(graph, S, k) ==
    IF k = 0 THEN S
    ELSE DependencyClosure(graph,
             S \cup UNION {graph[x] : x \in S \cap StepIds}, k - 1)

\* some step depends on itself, directly or through other steps
HasCycle(graph) ==
    \E s \in StepIds : s \in DependencyClosure(graph, graph[s], MaxSteps)

\* order holds every step exactly once, each after all of its dependencies
IsTopologicalOrder(order, graph) ==
    /\ Len(order) = MaxSteps
    /\ Range(order) = StepIds
    /\ \A i \in 1..Len(order) :
           graph[order[i]] \subseteq {order[j] : j \in 1..(i - 1)}

\* _topological_sort has returned or raised
Sorted == wfPc \notin {"idle", "sort"}

\* _topological_sort has raised the circular-dependency error
SortRaised == Sorted /\ execution_order = << >>

\* C32: _topological_sort returns every step exactly once, each step after
\* all of its dependencies, for every dependency graph without a cycle, and
\* raises the circular-dependency error only when the graph has a cycle.
C32_SortsEveryAcyclicGraph ==
    Sorted =>
        IF HasCycle(wfDeps) THEN SortRaised
        ELSE ~SortRaised /\ IsTopologicalOrder(execution_order, wfDeps)

\* every dependency names a step of the definition
DependenciesKnown == \A s \in StepIds : wfDeps[s] \subseteq StepIds

\* the same for the definitions whose dependencies all name steps of the
\* definition
Engine_SortsKnownDependencies ==
    (Sorted /\ DependenciesKnown) =>
        IF HasCycle(wfDeps) THEN SortRaised
        ELSE ~SortRaised /\ IsTopologicalOrder(execution_order, wfDeps)

(***************************************************************************)
(* Properties of the failure handling of the sequential engine.            *)
(***************************************************************************)
\* a step whose config['critical'] is true (the default) has failed
CriticalFailed ==
    \E s \in StepIds : wfStepStatus[s] = "failed" /\ wfCritical[s]

\* _execute_workflow_steps has returned
StepsReturned == wfPc \in {"returned", "done"}

\* s depends, directly or through other steps, on a step that failed
DependsOnFailed(s) ==
    \E d \in DependencyClosure(wfDeps, wfDeps[s], MaxSteps) \cap StepIds :
        wfStepStatus[d] = "failed"

\* C33: the result is unsuccessful exactly when a critical step failed or
\* the definition could not be ordered; after a critical failure no later
\* step is started; a non-critical failure only makes the steps depending
\* on it skipped and the run continues.
C33_CriticalFailureEndsRun ==
    /\ [](StepsReturned =>
             (wfReturn = "failure" <=> (CriticalFailed \/ SortRaised)))
    /\ [][CriticalFailed =>
             /\ wfStepStatus' = wfStepStatus
             /\ bodyInvoked' = bodyInvoked
             /\ noAgentSteps' = noAgentSteps]_vars
    /\ [](\A s \in StepIds :
             wfStepStatus[s] = "skipped" =>
                 (DependsOnFailed(s) /\ s \notin bodyInvoked))
    /\ []((StepsReturned /\ wfReturn = "success") =>
             \A s \in StepIds :
                 /\ wfStepStatus[s] \in {"completed", "failed", "skipped"}
                 /\ wfStepStatus[s] = "failed" => ~wfCritical[s]
                 /\ DependsOnFailed(s) <=> wfStepStatus[s] = "skipped")

\* a non-critical step failed, a step depending on it was skipped, a step
\* after them completed and the result is successful
C33_Witness ==
    /\ wfPc = "done"
    /\ wfReturn = "success"
    /\ \E s, t, u \in StepIds :
           /\ wfStepStatus[s] = "failed" /\ ~wfCritical[s]
           /\ s \in wfDeps[t] /\ wfStepStatus[t] = "skipped"
           /\ wfStepStatus[u] = "completed"
           /\ \E i, j \in 1..Len(execution_order) :
                  i < j /\ execution_order[i] = s /\ execution_order[j] = u

(***************************************************************************)
(* Properties of the registry of running executions.                       *)
(***************************************************************************)
\* C34: execute_workflow called with a workflow id that has no template
\* fails with the 'template not found' error (the ValueError) and leaves
\* active_workflows unchanged.
C34_MissingTemplateRaisesNotFound ==
    [][\A c \in Calls :
          (callPc[c] = "idle" /\ callPc'[c] = "raised") =>
              /\ callRaised'[c] = "ValueError"
              /\ active_workflows' = active_workflows]_vars

\* what does hold of such a call: the registry is as it was
Registry_MissingTemplateLeavesRegistry ==
    [][\A c \in Calls :
          (callPc[c] = "idle" /\ callPc'[c] = "raised") =>
              active_workflows' = active_workflows]_vars

\* call c has left execute_workflow
Ended(c) == callPc[c] \in {"returned", "raised"}

\* C35: an execution is registered only while it is running: when
\* execute_workflow returns or raises, its entry has been removed, for
\* every outcome (completed, failed, blocked, exception).
C35_RegisteredOnlyWhileRunning ==
    /\ [](\A id \in DOMAIN active_workflows :
             callPc[active_workflows[id]] = "running")
    /\ [][\A c \in Calls :
             (~Ended(c) /\ Ended(c)') =>
                 (execution_id[c] = Unbound
                     \/ execution_id[c] \notin DOMAIN active_workflows')]_vars

\* calls have ended with every outcome, one of them by an exception, and
\* nothing is registered
C35_Witness ==
    /\ active_workflows = << >>
    /\ \A c \in Calls : Ended(c) /\ execution_id[c] # Unbound
    /\ \E c, d \in Calls :
           /\ callOutcome[c] = "exception" /\ callRaised[c] = "Exception"
           /\ callOutcome[d] \in {"completed", "failed", "blocked"}

\* C36: two executions running at the same time on one orchestrator are
\* registered under different execution ids, so finishing or querying one
\* never removes or returns the other's entry.
C36_DistinctExecutionIds ==
    \A c, d \in Calls :
        (callPc[c] = "running" /\ callPc[d] = "running" /\ c # d) =>
            /\ execution_id[c] # execution_id[d]
            /\ GetWorkflowStatus(execution_id[c]) = c
            /\ GetWorkflowStatus(execution_id[d]) = d

\* what does hold: a running execution whose id no other call was given,
\* because the template or the second of its creation differs, is
\* registered under its id
Registry_UniqueIdIsRegistered ==
    \A c \in Calls :
        (/\ callPc[c] = "running"
         /\ \A d \in Calls \ {c} : execution_id[d] # execution_id[c]) =>
            GetWorkflowStatus(execution_id[c]) = c

\* the sequential engine: the context is in running_workflows exactly from
\* its creation to the finally clause of execute_workflow
Engine_RegisteredOnlyWhileRunning ==
    running_workflows <=> wfPc \in {"sort", "loop", "executing", "awaiting",
                                    "returned"}

(***************************************************************************)
(* Properties of the per-step detail of the orchestrator's result.         *)
(***************************************************************************)
\* C37: in the final per-step detail a step whose status is completed
\* carries no error message, also when it succeeded only after one or more
\* failed attempts.
C37_CompletedStepHasNoError ==
    pc = "done" =>
        \A s \in StepIds :
            result.step_details[s].status = "completed" =>
                result.step_details[s].error = NoError

\* what does hold: a completed step that was never retried has no error,
\* and a step has an error exactly when one of its attempts raised
Orch_ErrorIffAttemptRaised ==
    pc = "done" =>
        \A s \in StepIds :
            result.step_details[s].error = NoError <=>
                (/\ result.step_details[s].retry_count = 0
                 /\ result.step_details[s].status # "failed")

(***************************************************************************)
(* Properties of the two representations of the graph.                     *)
(***************************************************************************)
\* C38: after any sequence of add_node and add_edge calls, b is in
\* edges[a] exactly when a is in the dependencies of node b, so the cycle
\* check and the scheduler see the same graph.
C38_EdgesMirrorDependencies ==
    \A a \in NodeIds, b \in nodes :
        b \in Range(EdgesGet(edges, a)) <=> a \in Range(dependencies[b])

\* what does hold: every edge has its entry in the dependencies of its
\* target
Graph_EdgesAreDependencies ==
    \A a \in nodes, b \in nodes :
        b \in Range(edges[a]) => a \in Range(dependencies[b])

(***************************************************************************)
(* Properties of the execution history.                                    *)
(***************************************************************************)
\* C39: after any number of executions, execution_history for a workflow
\* id holds at most 100 results, and they are the most recent ones in the
\* order they were executed.
C39_HistoryKeepsLatest ==
    \A w \in DagWorkflowIds :
        LET history == HistoryOf(w)
        IN /\ Len(history) <= HistoryLimit
           /\ Len(history) = IF stored[w] < HistoryLimit THEN stored[w]
                             ELSE HistoryLimit
           /\ \A i \in 1..Len(history) :
                  history[i] = stored[w] - Len(history) + i

\* more than 100 results were stored for a workflow id: the oldest ones are
\* gone and the latest is the last entry
C39_Witness ==
    \E w \in DagWorkflowIds :
        /\ stored[w] > HistoryLimit
        /\ Len(HistoryOf(w)) = HistoryLimit
        /\ HistoryOf(w)[1] = stored[w] - HistoryLimit + 1
        /\ HistoryOf(w)[HistoryLimit] = stored[w]
====
